---- MODULE Spec2Model ----
(***************************************************************************)
(* Confounder: the confounder-validation pipeline of opencausality.        *)
(*                                                                         *)
(* Conventions of the model                                                *)
(*   - a Python str is a sequence of one-character strings, so that        *)
(*     str.lower() and the substring test `a in b` are computed;           *)
(*   - an Optional value is None == <<>> or Some(v) == <<v>>;              *)
(*   - p-values and alpha are integers in thousandths (50 is 0.05);        *)
(*   - treatment-effect estimates are integers in units of 1e-10, so the   *)
(*     code's guard `abs(x) > 1e-10` is `Abs(x) > Eps` with Eps == 1;      *)
(*   - a percentage is an exact fraction [num, den] with den > 0.          *)
(***************************************************************************)
EXTENDS Integers, Sequences, FiniteSets, TLC

VARIABLES
    pc,          \* position of the running specification
    cand,        \* matcher: the candidate passed to match_candidate_to_column
    columns,     \* matcher: the column list passed to it
    matched,     \* matcher: its return value
    study,       \* pipeline: the Study (columns, treatment, outcome, covariates)
    candidates,  \* pipeline: the parsed ConfounderCandidate list
    alpha,       \* pipeline: the significance level given to validate_candidates
    validated,   \* pipeline: the ValidatedConfounder list
    tests,       \* pipeline: the calls made to check_conditional_association
    naive_est,   \* pipeline: the naive estimate kept for the report
    report,      \* pipeline: the BiasReport
    bias_threshold, \* estimate_bias: its bias_threshold argument (hundredths)
    bias_data,   \* estimate_bias: what the dataset yields for its regressions
    bias_result, \* estimate_bias: the BiasEstimationResult returned, if any
    error,       \* the exception raised, if any
    bias_i,      \* pipeline: position of the bias loop in validated
    bias_log,    \* pipeline: the calls made to estimate_bias
    test_data,   \* pipeline: what the dataset yielded for the tests
    runs,        \* pipeline: the outcomes of the runs completed before
    sens_result, \* bound_unmeasured_confounder: the SensitivityResult returned
    suggested,   \* suggest_corrections: the mapping returned
    assoc,       \* check_conditional_association: its arguments
    assoc_result, \* check_conditional_association: its return value
    llm_response, \* parse_candidates: the response text it is given
    parse_result, \* parse_candidates: the list returned or the exception
    llm,         \* LLMAdapter.complete: the state of one call
    load_args,   \* load_study / check_study: the dataset's columns and the names
    val_study,   \* validate_study: the study and min_samples it is given
    val_res,     \* validate_study: the ValidationResult returned
    slots,       \* validation, one task per candidate: the results by index
    render_log,  \* _render_report: the calls of bound_unmeasured_confounder
    core_log     \* the calls of core operations made so far

matchVars == <<cand, columns, matched>>
pipeVars == <<study, candidates, alpha, validated, tests, naive_est, report>>
biasVars == <<bias_threshold, bias_data, bias_result, error>>
loopVars == <<bias_i, bias_log, test_data, runs>>
callVars == <<sens_result, suggested, assoc, assoc_result>>
llmVars == <<llm_response, parse_result, llm>>
dataVars == <<load_args, val_study, val_res>>
auxVars == <<llmVars, dataVars, slots, render_log, core_log>>
vars == <<pc, matchVars, pipeVars, biasVars, loopVars, callVars, auxVars>>

----------------------------------------------------------------------------
(* Optional values *)

None == <<>>
Some(v) == <<v>>
Get(o) == o[1]

\* the elements of a list
Range(f) == {f[k] : k \in DOMAIN f}

----------------------------------------------------------------------------
(* Strings *)

\* str.lower() on one character of the model's alphabet
LowerChar(c) ==
    CASE c = "A" -> "a"
      [] c = "D" -> "d"
      [] c = "E" -> "e"
      [] c = "G" -> "g"
      [] c = "H" -> "h"
      [] c = "I" -> "i"
      [] c = "M" -> "m"
      [] c = "N" -> "n"
      [] c = "T" -> "t"
      [] c = "U" -> "u"
      [] OTHER -> c

\* str.lower()
Lower(s) == [k \in 1..Len(s) |-> LowerChar(s[k])]

\* Python's `sub in s` for strings: sub is a contiguous slice of s
Contains(sub, s) ==
    \E k \in 0..(Len(s) - Len(sub)) : SubSeq(s, k + 1, k + Len(sub)) = sub

s_empty == <<>>
s_id    == <<"i", "d">>
s_ag    == <<"a", "g">>
s_age   == <<"a", "g", "e">>
s_Age   == <<"A", "g", "e">>
s_AGE   == <<"A", "G", "E">>
s_aged  == <<"a", "g", "e", "d">>
s_u_age == <<"u", "_", "a", "g", "e">>
s_u_id  == <<"u", "_", "i", "d">>
s_inc   == <<"i", "n", "c">>
s_Tut   == <<"T", "u", "t">>
s_tut   == <<"t", "u", "t">>
s_out   == <<"o", "u", "t">>
s_iq    == <<"i", "q">>
s_mot   == <<"m", "o", "t">>

----------------------------------------------------------------------------
(* detection/validator.py: match_candidate_to_column *)

\* ConfounderCandidate (the fields the core reads)
ConfounderCandidate(name, severity) == [name |-> name, severity |-> severity]

\* next(col for col in columns if col.lower() == c_name), scanning from k
RECURSIVE NextExact(_, _, _)
NextExact(c_name, cols, k) ==
    IF k > Len(cols) THEN None
    ELSE IF Lower(cols[k]) = c_name THEN Some(cols[k])
    ELSE NextExact(c_name, cols, k + 1)

\* the partial-match loop, scanning from k
RECURSIVE FuzzyScan(_, _, _)
FuzzyScan(c_name, cols, k) ==
    IF k > Len(cols) THEN None
    ELSE IF (Contains(c_name, Lower(cols[k])) \/ Contains(Lower(cols[k]), c_name))
            /\ Len(c_name) >= 3
         THEN Some(cols[k])
    ELSE FuzzyScan(c_name, cols, k + 1)

\* a plausible slip: the exact-match phase is skipped
match_candidate_to_column_NoExact(candidate, cols) ==
    FuzzyScan(Lower(candidate.name), cols, 1)

match_candidate_to_column(candidate, cols) ==
    LET c_name == Lower(candidate.name)
        lowered == [k \in 1..Len(cols) |-> Lower(cols[k])]
    IN  IF \E k \in 1..Len(lowered) : lowered[k] = c_name
        THEN NextExact(c_name, cols, 1)
        ELSE FuzzyScan(c_name, cols, 1)

----------------------------------------------------------------------------
(* Specification of the matcher alone: inputs drawn from a pool of names *)

MaxCols == 3

NamePool == {s_empty, s_id, s_ag, s_age, s_Age, s_aged, s_u_age, s_u_id, s_inc}

ColumnLists == UNION {[1..n -> NamePool] : n \in 0..MaxCols}

\* the variables a specification does not use stay at these values
IdleMatch == cand = None /\ columns = <<>> /\ matched = None
IdlePipe ==
    /\ study = None /\ candidates = <<>> /\ alpha = 0
    /\ validated = <<>> /\ tests = <<>>
    /\ naive_est = None /\ report = None
IdleBias ==
    /\ bias_threshold = 0 /\ bias_data = None
    /\ bias_result = None /\ error = None
IdleLoop == bias_i = 0 /\ bias_log = <<>> /\ test_data = None /\ runs = <<>>
IdleCalls ==
    /\ sens_result = None /\ suggested = None
    /\ assoc = None /\ assoc_result = None
IdleAux ==
    /\ llm_response = None /\ parse_result = None /\ llm = None
    /\ load_args = None /\ val_study = None /\ val_res = None
    /\ slots = <<>> /\ render_log = <<>> /\ core_log = <<>>

InitMatch ==
    /\ IdleAux
    /\ pc = "call"
    /\ IdlePipe
    /\ IdleBias
    /\ IdleLoop
    /\ IdleCalls
    /\ cand \in {ConfounderCandidate(n, "high") : n \in NamePool \cup {s_AGE}}
    /\ columns \in ColumnLists
    /\ matched = None

Match ==
    /\ pc = "call"
    /\ matched' = match_candidate_to_column(cand, columns)
    /\ pc' = "returned"
    /\ UNCHANGED <<auxVars, cand, columns, pipeVars, biasVars, loopVars, callVars>>

NextMatch == Match

SpecMatch == InitMatch /\ [][NextMatch]_vars

Min(S) == CHOOSE m \in S : \A n \in S : m <= n

\* column indices equal to the candidate name, case-insensitively
ExactAt(c, cols) == {k \in 1..Len(cols) : Lower(cols[k]) = Lower(c.name)}
\* column indices whose lower-cased name contains the lower-cased candidate
\* name or is contained in it
FuzzyAt(c, cols) ==
    {k \in 1..Len(cols) : \/ Contains(Lower(c.name), Lower(cols[k]))
                          \/ Contains(Lower(cols[k]), Lower(c.name))}

MatchReference(c, cols) ==
    IF ExactAt(c, cols) # {} THEN Some(cols[Min(ExactAt(c, cols))])
    ELSE IF Len(c.name) >= 3 /\ FuzzyAt(c, cols) # {}
         THEN Some(cols[Min(FuzzyAt(c, cols))])
    ELSE None

\* C4: match_candidate_to_column returns the first case-insensitively equal
\* column if there is one (even after a column that would fuzzy-match),
\* otherwise, for a name of at least 3 characters, the first column that
\* contains the name or is contained in it, otherwise None; a name shorter
\* than 3 characters is never fuzzy-matched; the result is None or a column.
C4_MatchIsReference ==
    pc = "returned" =>
        /\ matched = MatchReference(cand, columns)
        /\ (Len(cand.name) < 3 /\ ExactAt(cand, columns) = {} => matched = None)
        /\ (matched = None \/ Get(matched) \in Range(columns))

\* an exact match is returned although an earlier column fuzzy-matches
C4_Witness ==
    /\ pc = "returned"
    /\ Len(cand.name) >= 3
    /\ \E j, k \in 1..Len(columns) :
          /\ j < k
          /\ j \in FuzzyAt(cand, columns) /\ j \notin ExactAt(cand, columns)
          /\ k = Min(ExactAt(cand, columns) \cup {k})
          /\ k \in ExactAt(cand, columns)
          /\ matched = Some(columns[k])
          /\ columns[j] # columns[k]

----------------------------------------------------------------------------
(* data/loader.py: Study, load_study *)

s_index     == <<"i", "n", "d", "e", "x">>
s_timestamp == <<"t", "i", "m", "e", "s", "t", "a", "m", "p">>
s_date      == <<"d", "a", "t", "e">>

\* [c for c in df.columns if c.lower() not in exclude]
RECURSIVE Covariates(_, _)
Covariates(cols, exclude) ==
    IF cols = <<>> THEN <<>>
    ELSE IF Lower(Head(cols)) \notin exclude
         THEN <<Head(cols)>> \o Covariates(Tail(cols), exclude)
    ELSE Covariates(Tail(cols), exclude)

\* the Study load_study builds from a dataset with the given columns
\* (the caller has checked that treatment and outcome are columns)
load_study(cols, treatment, outcome) ==
    LET exclude == {s_id, s_index, s_timestamp, s_date, treatment, outcome}
    IN  [columns |-> cols,
         treatment |-> treatment,
         outcome |-> outcome,
         measured_covariates |-> Covariates(cols, exclude)]

----------------------------------------------------------------------------
(* detection/statistical.py *)

\* What the dataset yields for one regression: the number of rows left by
\* dropna() on the regression's columns, whether the fit of the selected
\* model succeeds, and the p-value of the predictor's coefficient
\* (thousandths) when it does; whether every value of the target among those
\* rows is one of 0, 1, True, False, and whether the target converts to
\* float.
Observation(rows, ok, p) ==
    [complete_rows |-> rows, fit_ok |-> ok, pval |-> p,
     binary_values |-> FALSE, numeric_target |-> TRUE]

\* the same observation on a target with the given kind of values
OnTarget(o, binary, numeric) ==
    [o EXCEPT !.binary_values = binary, !.numeric_target = numeric]

\* the number of occurrences of x in the list s
Occurrences(s, x) == Cardinality({k \in 1..Len(s) : s[k] = x})

\* the three ways check_conditional_association ends
TestRaise(exc) ==
    [raised |-> Some(exc), p_value |-> 1000, is_significant |-> FALSE,
     details |-> [error |-> None, model_type |-> None]]
TestError(msg) ==
    [raised |-> None, p_value |-> 1000, is_significant |-> FALSE,
     details |-> [error |-> Some(msg), model_type |-> None]]
TestFitted(p, sig, model_type) ==
    [raised |-> None, p_value |-> p, is_significant |-> sig,
     details |-> [error |-> None, model_type |-> Some(model_type)]]

\* a plausible slip: the row bound is exclusive
TooFewRows_Exclusive(rows, cols) == rows <= Len(cols) + 5

\* len(df) < len(cols) + 5
TooFewRows(rows, cols) == rows < Len(cols) + 5

\* a plausible slip: only the caller's declaration selects the logistic model
IsBinary_DeclaredOnly(is_binary_target, obs) == is_binary_target

\* is_binary_target or set(Y.unique()) <= {0, 1, 0.0, 1.0, True, False}
IsBinary(is_binary_target, obs) == is_binary_target \/ obs.binary_values

\* The dataset holds every column of cols. A target named twice in cols
\* makes df[target] a DataFrame, which has no unique(); a target declared
\* binary whose values are not numbers fails Y.astype(float); both statements
\* stand before the try block.
check_conditional_association(target, predictor, controls, obs, a, is_binary_target) ==
    LET cols == <<target, predictor>> \o controls
    IN  IF TooFewRows(obs.complete_rows, cols)
        THEN TestError("Insufficient data after dropping NaNs")
        ELSE IF ~is_binary_target /\ Occurrences(cols, target) > 1
        THEN TestRaise("AttributeError")
        ELSE IF IsBinary(is_binary_target, obs) /\ ~obs.numeric_target
        THEN TestRaise("ValueError")
        ELSE IF ~obs.fit_ok
        THEN TestError("str(e)")
        ELSE TestFitted(obs.pval, obs.pval < a,
                        IF IsBinary(is_binary_target, obs) THEN "Logit" ELSE "OLS")

\* a call of check_conditional_association as the log records it
TestCall(target, predictor, controls) ==
    [target |-> target, predictor |-> predictor, controls |-> controls]

\* the dict check_confounding_criteria returns, or the exception of the
\* first call that raises; calls and results list the calls made
CriteriaResult(rt, ry, is_confounder, calls) ==
    IF rt.raised # None
    THEN [raised |-> rt.raised, is_statistical_confounder |-> FALSE,
          causes_treatment |-> rt, causes_outcome |-> rt,
          calls |-> <<calls[1]>>, results |-> <<rt>>]
    ELSE [raised |-> ry.raised,
          is_statistical_confounder |-> ry.raised = None /\ is_confounder,
          causes_treatment |-> rt, causes_outcome |-> ry,
          calls |-> calls, results |-> <<rt, ry>>]

\* a plausible slip: one significant test is enough
check_confounding_criteria_Either(z_col, t_col, y_col, covariates, obs, a) ==
    LET rt == check_conditional_association(t_col, z_col, covariates, obs.t,
                                            a, FALSE)
        ry == check_conditional_association(y_col, z_col,
                                            <<t_col>> \o covariates, obs.y,
                                            a, FALSE)
    IN  CriteriaResult(rt, ry, rt.is_significant \/ ry.is_significant,
                       <<TestCall(t_col, z_col, covariates),
                         TestCall(y_col, z_col, <<t_col>> \o covariates)>>)

\* obs.t and obs.y are the dataset's observations for the two regressions
check_confounding_criteria(z_col, t_col, y_col, covariates, obs, a) ==
    LET rt == check_conditional_association(t_col, z_col, covariates, obs.t,
                                            a, FALSE)
        ry == check_conditional_association(y_col, z_col,
                                            <<t_col>> \o covariates, obs.y,
                                            a, FALSE)
    IN  CriteriaResult(rt, ry, rt.is_significant /\ ry.is_significant,
                       <<TestCall(t_col, z_col, covariates),
                         TestCall(y_col, z_col, <<t_col>> \o covariates)>>)

----------------------------------------------------------------------------
(* detection/validator.py: ValidatedConfounder, validate_candidates *)

ValidatedConfounder(candidate, is_measured, matched_column, p_t, p_y, is_sig) ==
    [candidate |-> candidate,
     is_measured |-> is_measured,
     matched_column |-> matched_column,
     causes_treatment_pval |-> p_t,
     causes_outcome_pval |-> p_y,
     is_statistically_significant |-> is_sig,
     bias_magnitude |-> None,
     bias_percentage |-> None]

validation_status(v) ==
    IF ~v.is_measured THEN "unmeasured_theoretical"
    ELSE IF v.is_statistically_significant THEN "measured_confirmed"
    ELSE "measured_rejected"

\* Python truthiness of a str | None
Falsy(o) == o = None \/ o = Some(<<>>)

\* a plausible slip: the matched column stays among the controls
Without_KeepsAll(covs, z) == covs

\* [c for c in study.measured_covariates if c != matched_col]
RECURSIVE Without(_, _)
Without(covs, z) ==
    IF covs = <<>> THEN <<>>
    ELSE IF Head(covs) # z THEN <<Head(covs)>> \o Without(Tail(covs), z)
    ELSE Without(Tail(covs), z)

\* a plausible slip: every matched column that is not a measured covariate
\* is skipped
IsTreatmentOrOutcome_NotCovariate(matched_col, st) ==
    matched_col # None /\ Get(matched_col) \notin Range(st.measured_covariates)

\* matched_col in (study.treatment, study.outcome)
IsTreatmentOrOutcome(matched_col, st) ==
    matched_col \in {Some(st.treatment), Some(st.outcome)}

\* a plausible slip: a column that an earlier candidate was matched to is
\* not validated again
SkipCandidate_AlsoRepeated(matched_col, st, acc) ==
    \/ IsTreatmentOrOutcome(matched_col, st)
    \/ /\ matched_col # None
       /\ \E j \in 1..Len(acc.validated) :
             acc.validated[j].matched_column = matched_col

\* the `continue` of the loop: the condition reads the matched column and
\* the study, not the records made so far
SkipCandidate(matched_col, st, acc) == IsTreatmentOrOutcome(matched_col, st)

\* a plausible slip: the unmatched candidate is flagged as measured
Unmeasured_FlaggedMeasured(cnd) ==
    ValidatedConfounder(cnd, TRUE, None, None, None, FALSE)

\* the record of a candidate found in no column
Unmeasured(cnd) ==
    ValidatedConfounder(cnd, FALSE, None, None, None, FALSE)

\* a plausible slip: the list outlives the call (a shared default)
FreshList_Leftover == validated

\* validated = []
FreshList == <<>>

\* one iteration of the loop over candidates: acc is (validated, tests,
\* raised); obs maps a column to the dataset's observations for its two
\* regressions. A test entry carries the positions of its candidate and of
\* its record. An exception of a test leaves the loop: no record is appended.
ValidateOne(k, cnd, st, a, obs, acc) ==
    LET matched_col == match_candidate_to_column(cnd, st.columns)
    IN  IF SkipCandidate(matched_col, st, acc)
        THEN acc
        ELSE IF Falsy(matched_col)
        THEN [acc EXCEPT !.validated = Append(@, Unmeasured(cnd))]
        ELSE LET z == Get(matched_col)
                 controls == Without(st.measured_covariates, z)
                 stats == check_confounding_criteria(z, st.treatment, st.outcome,
                                                     controls, obs[z], a)
                 made == acc.tests \o [n \in 1..Len(stats.calls) |->
                            [cand |-> k, out |-> Len(acc.validated) + 1,
                             call |-> stats.calls[n],
                             result |-> stats.results[n]]]
             IN  IF stats.raised # None
                 THEN [validated |-> acc.validated, tests |-> made,
                       raised |-> stats.raised]
                 ELSE [validated |->
                          Append(acc.validated,
                                 ValidatedConfounder(cnd, TRUE, matched_col,
                                     Some(stats.causes_treatment.p_value),
                                     Some(stats.causes_outcome.p_value),
                                     stats.is_statistical_confounder)),
                       tests |-> made,
                       raised |-> None]

RECURSIVE ValidateFrom(_, _, _, _, _, _)
ValidateFrom(k, cands, st, a, obs, acc) ==
    IF k > Len(cands) \/ acc.raised # None THEN acc
    ELSE ValidateFrom(k + 1, cands, st, a, obs,
                      ValidateOne(k, cands[k], st, a, obs, acc))

\* the list returned (validated) or the exception that ends the call (raised)
validate_candidates(cands, st, a, obs) ==
    ValidateFrom(1, cands, st, a, obs,
                 [validated |-> FreshList, tests |-> <<>>, raised |-> None])

----------------------------------------------------------------------------
(* cli.py check / api/routes.py check_study: the pipeline *)

MaxCands == 2

Alphas == {50, 100}

\* observations a dataset can yield for one regression
Observations ==
    {Observation(6, TRUE, 10), Observation(100, FALSE, 0)}
        \cup {Observation(100, TRUE, p) : p \in {10, 50}}

Studies ==
    {load_study(<<s_id, s_age, s_tut, s_inc, s_out>>, s_tut, s_out),
     load_study(<<s_age, s_out, s_tut, s_empty>>, s_tut, s_out),
     load_study(<<s_age, s_Tut, s_out>>, s_Tut, s_out)}

CandidatePool ==
    {ConfounderCandidate(s_tut, "high"), ConfounderCandidate(s_out, "low"),
     ConfounderCandidate(s_age, "medium"), ConfounderCandidate(s_u_age, "low"),
     ConfounderCandidate(s_u_id, "medium"), ConfounderCandidate(s_iq, "high"),
     ConfounderCandidate(s_mot, "low")}

CandidateLists == UNION {[1..n -> CandidatePool] : n \in 0..MaxCands}

\* the columns the candidates are matched to and tested on
TestedColumns(cands, st) ==
    {Get(m) : m \in {mc \in {match_candidate_to_column(cands[k], st.columns) :
                                k \in 1..Len(cands)} :
                        ~IsTreatmentOrOutcome(mc, st) /\ ~Falsy(mc)}}

Init ==
    /\ IdleAux
    /\ pc = "validate"
    /\ IdleMatch
    /\ study \in Studies
    /\ candidates \in CandidateLists
    /\ alpha \in Alphas
    /\ validated = <<>>
    /\ tests = <<>>
    /\ naive_est = None
    /\ report = None
    /\ IdleBias
    /\ IdleLoop
    /\ IdleCalls

\* cli.py step 4: validated = validate_candidates(candidates, study)
\* and the start of step 5: naive_est = None. The dataset is the same in
\* every run: obs is what it yielded before, if it was read before.
Validate ==
    /\ pc = "validate"
    /\ \E obs \in [TestedColumns(candidates, study) ->
                      [t : Observations, y : Observations]] :
          /\ test_data # None => obs = Get(test_data)
          /\ test_data' = Some(obs)
          /\ LET r == validate_candidates(candidates, study, alpha, obs)
             IN  /\ tests' = r.tests
                 /\ error' = r.raised
                 /\ IF r.raised = None
                    THEN /\ validated' = r.validated
                         /\ naive_est' = None
                         /\ bias_i' = 1
                         /\ pc' = "bias"
                    ELSE /\ UNCHANGED <<validated, naive_est, bias_i>>
                         /\ pc' = "crashed"
    /\ UNCHANGED <<auxVars, study, candidates, alpha, report, matchVars,
                   bias_threshold, bias_data, bias_result, bias_log, runs,
                   callVars>>

----------------------------------------------------------------------------
(* Claims about validate_candidates *)

Validated == pc \notin {"validate", "crashed"}

\* the candidate is kept: its matched column is neither treatment nor outcome
Kept(c) ==
    match_candidate_to_column(c, study.columns)
        \notin {Some(study.treatment), Some(study.outcome)}

\* the position in validated of the record of kept candidate k
OutIndex(k) == Cardinality({j \in 1..k : Kept(candidates[j])})

TestsOf(i) == SelectSeq(tests, LAMBDA t : t.out = i)

\* C1: a measured record is statistically significant iff both the
\* Z->Treatment and the Z->Outcome test are significant (p < alpha); one
\* significant test, or none, gives is_statistically_significant = FALSE
\* and validation_status measured_rejected.
C1_SignificantIffBoth ==
    Validated =>
        \A i \in 1..Len(validated) :
            LET v == validated[i]
                ts == TestsOf(i)
            IN  v.is_measured =>
                  /\ Len(ts) = 2
                  /\ ts[1].call.target = study.treatment
                  /\ ts[2].call.target = study.outcome
                  /\ v.causes_treatment_pval = Some(ts[1].result.p_value)
                  /\ v.causes_outcome_pval = Some(ts[2].result.p_value)
                  /\ \A n \in 1..2 : ts[n].result.is_significant
                                        <=> ts[n].result.p_value < alpha
                  /\ v.is_statistically_significant
                        <=> (ts[1].result.p_value < alpha
                             /\ ts[2].result.p_value < alpha)
                  /\ (~v.is_statistically_significant
                        => validation_status(v) = "measured_rejected")

\* a measured record with exactly one significant test, rejected
C1_Witness ==
    /\ Validated
    /\ \E i \in 1..Len(validated) :
          /\ validated[i].is_measured
          /\ Get(validated[i].causes_treatment_pval) < alpha
          /\ Get(validated[i].causes_outcome_pval) >= alpha
          /\ ~validated[i].is_statistically_significant

\* C2: validate_candidates returns one record per candidate whose matched
\* column is not the treatment or the outcome, in input order; a candidate
\* matched to the treatment or the outcome produces no record.
C2_OneRecordPerKeptCandidate ==
    Validated =>
        [i \in 1..Len(validated) |-> validated[i].candidate]
            = SelectSeq(candidates, Kept)

\* a candidate matched to the outcome is dropped and the next one is kept
C2_Witness ==
    /\ Validated
    /\ Len(candidates) = 2 /\ Len(validated) = 1
    /\ match_candidate_to_column(candidates[1], study.columns) = Some(study.outcome)
    /\ validated[1].candidate = candidates[2]

\* C3: a candidate matching no column gives a record with is_measured FALSE,
\* no matched column, no p-values, not significant, no bias fields, and no
\* test is run for it; a record with is_measured TRUE has a matched column
\* of the dataset other than treatment and outcome and has both p-values;
\* validation_status is one of the three values.
C3_UnmatchedIsUnmeasured ==
    Validated =>
        /\ \A k \in 1..Len(candidates) :
              match_candidate_to_column(candidates[k], study.columns) = None =>
                  /\ OutIndex(k) \in 1..Len(validated)
                  /\ validated[OutIndex(k)] =
                        [candidate |-> candidates[k],
                         is_measured |-> FALSE,
                         matched_column |-> None,
                         causes_treatment_pval |-> None,
                         causes_outcome_pval |-> None,
                         is_statistically_significant |-> FALSE,
                         bias_magnitude |-> None,
                         bias_percentage |-> None]
                  /\ \A n \in 1..Len(tests) : tests[n].cand # k
        /\ \A i \in 1..Len(validated) :
              LET v == validated[i]
              IN  /\ v.is_measured =>
                        /\ v.matched_column # None
                        /\ Get(v.matched_column) \in Range(study.columns)
                        /\ Get(v.matched_column) \notin {study.treatment, study.outcome}
                        /\ v.causes_treatment_pval # None
                        /\ v.causes_outcome_pval # None
                  /\ validation_status(v) = "unmeasured_theoretical" <=> ~v.is_measured
                  /\ validation_status(v) = "measured_confirmed"
                        <=> (v.is_measured /\ v.is_statistically_significant)
                  /\ validation_status(v) = "measured_rejected"
                        <=> (v.is_measured /\ ~v.is_statistically_significant)

\* an unmatched candidate validated after a measured one, whose tests ran
C3_Witness ==
    /\ Validated
    /\ Len(validated) = 2
    /\ validated[1].is_measured /\ Len(tests) = 2
    /\ match_candidate_to_column(candidates[2], study.columns) = None
    /\ ~validated[2].is_measured

\* C5: for a candidate matched to Z the Z->Treatment test has target
\* treatment, predictor Z and controls the measured covariates except Z; the
\* Z->Outcome test has target outcome, predictor Z and controls treatment
\* followed by the measured covariates except Z; Z is never a control.
C5_TestDesign ==
    Validated =>
        \A i \in 1..Len(validated) :
            validated[i].is_measured =>
                LET z == Get(validated[i].matched_column)
                    others == SelectSeq(study.measured_covariates,
                                        LAMBDA c : c # z)
                    ts == TestsOf(i)
                IN  /\ Len(ts) = 2
                    /\ ts[1].call = [target |-> study.treatment, predictor |-> z,
                                     controls |-> others]
                    /\ ts[2].call = [target |-> study.outcome, predictor |-> z,
                                     controls |-> <<study.treatment>> \o others]
                    /\ \A n \in 1..2 : z \notin Range(ts[n].call.controls)

\* a covariate Z is tested with the other covariate as control
C5_Witness ==
    /\ Validated
    /\ \E n \in 1..Len(tests) :
          /\ tests[n].call.predictor \in Range(study.measured_covariates)
          /\ tests[n].call.target = study.outcome
          /\ Len(tests[n].call.controls) = Len(study.measured_covariates)
          /\ Len(study.measured_covariates) = 2

----------------------------------------------------------------------------
(* Percentages: exact fractions num/den with den > 0 *)

Frac(n, d) == [num |-> n, den |-> d]
Abs(x) == IF x < 0 THEN -x ELSE x
\* abs(q)
AbsFrac(q) == Frac(Abs(q.num), q.den)
\* q > n for an integer n
FracGt(q, n) == q.num > n * q.den
\* Python truthiness of a float | None: None and 0.0 are false
FalsyFloat(o) == o = None \/ Get(o).num = 0

----------------------------------------------------------------------------
(* correction/suggester.py: suggest_corrections *)

\* the strategies of one confounder, as their action_type tags
\* a plausible slip: stratification is suggested from 25% on
Strategies_Inclusive(conf) ==
    IF conf.is_measured /\ conf.is_statistically_significant
    THEN <<"control">> \o
         (IF ~FalsyFloat(conf.bias_percentage)
             /\ AbsFrac(Get(conf.bias_percentage)).num
                   >= 25 * Get(conf.bias_percentage).den
          THEN <<"stratify">> ELSE <<>>)
    ELSE IF ~conf.is_measured THEN <<"sensitivity", "study_design">>
    ELSE <<>>

\* the action types of the strategies suggested for one confounder
Strategies(conf) ==
    IF conf.is_measured /\ conf.is_statistically_significant
    THEN <<"control">> \o
         (IF ~FalsyFloat(conf.bias_percentage)
             /\ FracGt(AbsFrac(Get(conf.bias_percentage)), 25)
          THEN <<"stratify">> ELSE <<>>)
    ELSE IF ~conf.is_measured THEN <<"sensitivity", "study_design">>
    ELSE <<>>

\* recommendations[name] = strats
DictSet(d, key, val) ==
    [n \in DOMAIN d \cup {key} |-> IF n = key THEN val ELSE d[n]]

RECURSIVE SuggestFrom(_, _, _)
SuggestFrom(k, confounders, recommendations) ==
    IF k > Len(confounders) THEN recommendations
    ELSE LET strats == Strategies(confounders[k])
         IN  SuggestFrom(k + 1, confounders,
                 IF strats # <<>>
                 THEN DictSet(recommendations, confounders[k].candidate.name, strats)
                 ELSE recommendations)

suggest_corrections(confounders) == SuggestFrom(1, confounders, <<>>)

----------------------------------------------------------------------------
(* correction/explainer.py: rank_confounders, generate_report *)

\* str.lower() on a severity label
SeverityLower(sev) ==
    CASE sev = "High" -> "high"
      [] sev = "MEDIUM" -> "medium"
      [] sev = "Low" -> "low"
      [] OTHER -> sev

RankedConfounder(confounder, severity, priority) ==
    [confounder |-> confounder, severity |-> severity, priority |-> priority]

\* a plausible slip: the bias thresholds are inclusive (>= 25, >= 10)
Ranking_Inclusive(v) ==
    IF v.is_measured /\ v.is_statistically_significant
    THEN LET bias_pct == IF FalsyFloat(v.bias_percentage) THEN Frac(0, 1)
                         ELSE AbsFrac(Get(v.bias_percentage))
         IN  IF bias_pct.num >= 25 * bias_pct.den
                THEN Some(RankedConfounder(v, "Critical", 1))
             ELSE IF bias_pct.num >= 10 * bias_pct.den
                THEN Some(RankedConfounder(v, "Moderate", 2))
             ELSE Some(RankedConfounder(v, "Minor", 4))
    ELSE IF ~v.is_measured
    THEN IF SeverityLower(v.candidate.severity) = "high"
            THEN Some(RankedConfounder(v, "Critical", 1))
         ELSE IF SeverityLower(v.candidate.severity) = "medium"
            THEN Some(RankedConfounder(v, "Moderate", 3))
         ELSE Some(RankedConfounder(v, "Minor", 5))
    ELSE None

\* a plausible slip: the measured-but-rejected confounder keeps the defaults
\* (priority 5, Minor) instead of being skipped
Ranking_NoSkip(v) ==
    IF v.is_measured /\ v.is_statistically_significant
    THEN LET bias_pct == IF FalsyFloat(v.bias_percentage) THEN Frac(0, 1)
                         ELSE AbsFrac(Get(v.bias_percentage))
         IN  IF FracGt(bias_pct, 25) THEN Some(RankedConfounder(v, "Critical", 1))
             ELSE IF FracGt(bias_pct, 10) THEN Some(RankedConfounder(v, "Moderate", 2))
             ELSE Some(RankedConfounder(v, "Minor", 4))
    ELSE IF ~v.is_measured
    THEN IF SeverityLower(v.candidate.severity) = "high"
            THEN Some(RankedConfounder(v, "Critical", 1))
         ELSE IF SeverityLower(v.candidate.severity) = "medium"
            THEN Some(RankedConfounder(v, "Moderate", 3))
         ELSE Some(RankedConfounder(v, "Minor", 5))
    ELSE Some(RankedConfounder(v, "Minor", 5))

\* the loop body of rank_confounders: the RankedConfounder of v, or None
\* when v is skipped (measured but not significant)
Ranking(v) ==
    IF v.is_measured /\ v.is_statistically_significant
    THEN LET bias_pct == IF FalsyFloat(v.bias_percentage) THEN Frac(0, 1)
                         ELSE AbsFrac(Get(v.bias_percentage))
         IN  IF FracGt(bias_pct, 25) THEN Some(RankedConfounder(v, "Critical", 1))
             ELSE IF FracGt(bias_pct, 10) THEN Some(RankedConfounder(v, "Moderate", 2))
             ELSE Some(RankedConfounder(v, "Minor", 4))
    ELSE IF ~v.is_measured
    THEN IF SeverityLower(v.candidate.severity) = "high"
            THEN Some(RankedConfounder(v, "Critical", 1))
         ELSE IF SeverityLower(v.candidate.severity) = "medium"
            THEN Some(RankedConfounder(v, "Moderate", 3))
         ELSE Some(RankedConfounder(v, "Minor", 5))
    ELSE None

\* for v in validated: ... ranked.append(...)
RECURSIVE RankFrom(_, _, _)
RankFrom(k, vs, ranked) ==
    IF k > Len(vs) THEN ranked
    ELSE RankFrom(k + 1, vs, ranked \o Ranking(vs[k]))

\* insertion of r after every element whose key is not greater (stable)
RECURSIVE InsertStable(_, _)
InsertStable(sorted, r) ==
    IF sorted = <<>> THEN <<r>>
    ELSE IF Head(sorted).priority <= r.priority
         THEN <<Head(sorted)>> \o InsertStable(Tail(sorted), r)
    ELSE <<r>> \o sorted

RECURSIVE InsertBeforeTies(_, _)
InsertBeforeTies(sorted, r) ==
    IF sorted = <<>> THEN <<r>>
    ELSE IF Head(sorted).priority < r.priority
         THEN <<Head(sorted)>> \o InsertBeforeTies(Tail(sorted), r)
    ELSE <<r>> \o sorted

\* a plausible slip: a sort that reverses ties (not stable)
RECURSIVE SortByPriority_Unstable(_, _)
SortByPriority_Unstable(ranked, sorted) ==
    IF ranked = <<>> THEN sorted
    ELSE SortByPriority_Unstable(Tail(ranked), InsertBeforeTies(sorted, Head(ranked)))

\* ranked.sort(key=lambda x: x.priority): list.sort is stable
RECURSIVE SortByPriority(_, _)
SortByPriority(ranked, sorted) ==
    IF ranked = <<>> THEN sorted
    ELSE SortByPriority(Tail(ranked), InsertStable(sorted, Head(ranked)))

rank_confounders(vs) == SortByPriority(RankFrom(1, vs, <<>>), <<>>)

generate_report(st, validated_confounders, naive_estimate, final_adjusted_estimate) ==
    LET ranked == rank_confounders(validated_confounders)
        recs == suggest_corrections([k \in 1..Len(ranked) |-> ranked[k].confounder])
    IN  [study |-> st,
         naive_estimate |-> naive_estimate,
         adjusted_estimate |-> final_adjusted_estimate,
         ranked_confounders |-> ranked,
         recommendations |-> recs]

\* cli.py step 6: report = generate_report(study, validated, naive_estimate=naive_est)
Report ==
    /\ pc = "report"
    /\ report' = Some(generate_report(study, validated, naive_est, None))
    /\ pc' = "done"
    /\ UNCHANGED <<auxVars, study, candidates, alpha, validated, tests, naive_est,
                   matchVars, biasVars, loopVars, callVars>>

----------------------------------------------------------------------------
(* Specification of the ranker and the report alone: any list of          *)
(* ValidatedConfounder records, as a caller of generate_report may pass    *)

MaxValidated == 3

\* a record as the validator and the bias quantifier leave it
Confounder(name, severity, is_measured, is_sig, bias_pct) ==
    [candidate |-> ConfounderCandidate(name, severity),
     is_measured |-> is_measured,
     matched_column |-> IF is_measured THEN Some(name) ELSE None,
     causes_treatment_pval |-> IF is_measured THEN Some(10) ELSE None,
     causes_outcome_pval |-> IF is_measured THEN Some(IF is_sig THEN 10 ELSE 200)
                             ELSE None,
     is_statistically_significant |-> is_sig,
     bias_magnitude |-> IF bias_pct = None THEN None ELSE Some(Get(bias_pct).num),
     bias_percentage |-> bias_pct]

BiasPercentages ==
    {None} \cup {Some(Frac(n, 1)) : n \in {0, 5, 10, -10, 25, -25, 30, -30}}
           \cup {Some(Frac(1001, 100)), Some(Frac(-2501, 100))}

ConfounderPool ==
    {Confounder(s_age, "low", TRUE, TRUE, b) : b \in BiasPercentages}
        \cup {Confounder(s_inc, "high", TRUE, TRUE, Some(Frac(30, 1))),
              Confounder(s_inc, "high", TRUE, FALSE, None),
              Confounder(s_age, "high", TRUE, FALSE, None)}
        \cup {Confounder(s_mot, sev, FALSE, FALSE, None) :
                 sev \in {"high", "medium", "low", "High", "unknown"}}
        \cup {Confounder(s_iq, "high", FALSE, FALSE, None)}

InitRank ==
    /\ IdleAux
    /\ pc = "report"
    /\ IdleMatch
    /\ study = load_study(<<s_id, s_age, s_tut, s_inc, s_out>>, s_tut, s_out)
    /\ candidates = <<>> /\ alpha = 0 /\ tests = <<>>
    /\ validated \in UNION {[1..n -> ConfounderPool] : n \in 0..MaxValidated}
    /\ naive_est = None
    /\ report = None
    /\ IdleBias
    /\ IdleLoop
    /\ IdleCalls

\* suggest_corrections(validated), on the list as given
Suggest ==
    /\ pc = "report"
    /\ suggested' = Some(suggest_corrections(validated))
    /\ pc' = "suggested"
    /\ UNCHANGED <<auxVars, matchVars, pipeVars, biasVars, loopVars,
                   sens_result, assoc, assoc_result>>

NextRank == Report \/ Suggest

SpecRank == InitRank /\ [][NextRank]_vars

----------------------------------------------------------------------------
(* Claims about rank_confounders and generate_report *)

Reported == pc = "done" /\ report # None
Ranked == Get(report).ranked_confounders
RankedConfounders == [k \in 1..Len(Ranked) |-> Ranked[k].confounder]

IsConfirmed(v) == v.is_measured /\ v.is_statistically_significant
IsRejected(v) == v.is_measured /\ ~v.is_statistically_significant

\* |bias%| of a record that has one, as a fraction
AbsBias(v) == AbsFrac(Get(v.bias_percentage))

\* C6: the priority and severity of every ranked confounder follow the
\* table: confirmed with |bias%| > 25 -> (1, Critical), with
\* 10 < |bias%| <= 25 -> (2, Moderate), with |bias%| <= 10 -> (4, Minor);
\* unmeasured high -> (1, Critical), medium -> (3, Moderate),
\* low -> (5, Minor).  |bias%| = 25 is Moderate and |bias%| = 10 is Minor.
C6_RankingTable ==
    Reported =>
        \A k \in 1..Len(Ranked) :
            LET r == Ranked[k]
                v == r.confounder
                ps == <<r.priority, r.severity>>
            IN  /\ IsConfirmed(v) /\ v.bias_percentage # None =>
                      /\ AbsBias(v).num > 25 * AbsBias(v).den
                            => ps = <<1, "Critical">>
                      /\ (AbsBias(v).num > 10 * AbsBias(v).den
                          /\ AbsBias(v).num <= 25 * AbsBias(v).den)
                            => ps = <<2, "Moderate">>
                      /\ AbsBias(v).num <= 10 * AbsBias(v).den
                            => ps = <<4, "Minor">>
                /\ ~v.is_measured =>
                      /\ v.candidate.severity = "high" => ps = <<1, "Critical">>
                      /\ v.candidate.severity = "medium" => ps = <<3, "Moderate">>
                      /\ v.candidate.severity = "low" => ps = <<5, "Minor">>

\* the two boundaries are ranked in one report: 25 Moderate, 10 Minor
C6_Witness ==
    /\ Reported
    /\ \E j, k \in 1..Len(Ranked) :
          /\ IsConfirmed(Ranked[j].confounder)
          /\ Ranked[j].confounder.bias_percentage = Some(Frac(-25, 1))
          /\ Ranked[j].severity = "Moderate"
          /\ IsConfirmed(Ranked[k].confounder)
          /\ Ranked[k].confounder.bias_percentage = Some(Frac(10, 1))
          /\ Ranked[k].priority = 4

\* C7: the ranked list is sorted by ascending priority and confounders of
\* equal priority keep their input order: for every priority the ranked
\* confounders of that priority are, in order, the input confounders that
\* were given that priority.
C7_SortedStable ==
    Reported =>
        /\ \A j, k \in 1..Len(Ranked) :
              j < k => Ranked[j].priority <= Ranked[k].priority
        /\ \A p \in 1..5 :
              SelectSeq(Ranked, LAMBDA r : r.priority = p)
                  = LET given == SelectSeq(validated,
                                     LAMBDA v : /\ Ranking(v) # None
                                                /\ Get(Ranking(v)).priority = p)
                    IN  [k \in 1..Len(given) |-> Get(Ranking(given[k]))]

\* two different confounders tie at priority 1 behind a Minor one in the
\* input; the sort moves them to the front in their input order
C7_Witness ==
    /\ Reported
    /\ Len(validated) = 3 /\ Len(Ranked) = 3
    /\ Ranked[1].priority = 1 /\ Ranked[2].priority = 1 /\ Ranked[3].priority > 1
    /\ Ranked[1].confounder # Ranked[2].confounder
    /\ Ranked[1].confounder = validated[2]
    /\ Ranked[2].confounder = validated[3]
    /\ Ranked[3].confounder = validated[1]

\* the number of positions of list s holding x
Count(s, x) == Cardinality({k \in 1..Len(s) : s[k] = x})

\* C8: a measured but not significant confounder is never in the ranked
\* output, nor in the report's ranked_confounders or recommendations; every
\* unmeasured or confirmed input confounder is in the ranked output exactly
\* once (as often as it is in the input).
C8_RejectedExcluded ==
    Reported =>
        /\ Ranked = rank_confounders(validated)
        /\ \A k \in 1..Len(Ranked) : ~IsRejected(Ranked[k].confounder)
        /\ \A v \in Range(validated) :
              Count(RankedConfounders, v)
                  = IF IsRejected(v) THEN 0 ELSE Count(validated, v)
        /\ Len(Ranked) = Cardinality({k \in 1..Len(validated) :
                                         ~IsRejected(validated[k])})
        /\ DOMAIN Get(report).recommendations
              = {RankedConfounders[k].candidate.name : k \in 1..Len(Ranked)}

\* a rejected confounder is dropped between two that are ranked
C8_Witness ==
    /\ Reported
    /\ Len(validated) = 3 /\ Len(Ranked) = 2
    /\ IsRejected(validated[2])
    /\ validated[2].candidate.name \notin DOMAIN Get(report).recommendations

----------------------------------------------------------------------------
(* estimation/bias.py: _estimate_effect, estimate_bias *)

\* the guard 1e-10 in the model's unit of estimates (1e-10)
Eps == 1

\* What the dataset yields for one OLS regression of the outcome on the
\* treatment and controls: the rows left by dropna(), whether the fit
\* succeeds, and the treatment coefficient when it does.
EffectObservation(rows, ok, est) ==
    [complete_rows |-> rows, fit_ok |-> ok, estimate |-> est]

\* _estimate_effect: the coefficient, or an exception
estimate_effect(controls, eobs) ==
    IF eobs.complete_rows < Len(controls) + 5
    THEN [raised |-> TRUE, value |-> 0]
    ELSE IF ~eobs.fit_ok THEN [raised |-> TRUE, value |-> 0]
    ELSE [raised |-> FALSE, value |-> eobs.estimate]

BiasEstimationResult(naive, adjusted, magnitude, percentage, is_problematic) ==
    [naive_estimate |-> naive,
     adjusted_estimate |-> adjusted,
     bias_magnitude |-> magnitude,
     bias_percentage |-> percentage,
     is_problematic |-> is_problematic]

Max(a, b) == IF a >= b THEN a ELSE b

\* a plausible slip: the larger magnitude is the denominator
Denominator_Larger(estimate_naive, estimate_adj) ==
    Max(Abs(estimate_naive), Abs(estimate_adj))

\* denom = abs(estimate_adj) if abs(estimate_adj) > 1e-10 else abs(estimate_naive)
Denominator(estimate_naive, estimate_adj) ==
    IF Abs(estimate_adj) > Eps THEN Abs(estimate_adj) ELSE Abs(estimate_naive)

\* bias_pct: (bias_mag / denom) * 100.0, or 0.0
BiasPercentage(bias_mag, denom) ==
    IF denom > Eps THEN Frac(bias_mag * 100, denom) ELSE Frac(0, 1)

\* a plausible slip: the threshold is inclusive
IsProblematic_Inclusive(bias_pct, threshold) ==
    AbsFrac(bias_pct).num >= threshold * bias_pct.den

\* abs(bias_pct) > (bias_threshold * 100), the threshold being in hundredths
IsProblematic(bias_pct, threshold) == FracGt(AbsFrac(bias_pct), threshold)

\* the outcome of a call: the exception raised or the result returned, and
\* the confounder as the call leaves it
Raise(exc, confounder) ==
    [error |-> Some(exc), result |-> None, confounder |-> confounder]
Return(result, confounder) ==
    [error |-> None, result |-> Some(result), confounder |-> confounder]

\* a plausible slip: the mean difference is taken whatever the treatment
FallbackAvailable_Always(data) == TRUE

\* set(study.data[t_col].unique()) <= {0, 1, 0.0, 1.0}
FallbackAvailable(data) == data.binary_treatment

\* a plausible slip: the failure of the adjusted regression is raised
AdjustedFailed_Raises(estimate_naive, confounder) ==
    Raise("ValueError: Adjusted estimation failed", confounder)

\* the adjusted regression failed: zero bias, the confounder untouched
AdjustedFailed(estimate_naive, confounder) ==
    Return(BiasEstimationResult(estimate_naive, estimate_naive,
                                0, Frac(0, 1), FALSE),
           confounder)

\* a plausible slip: the verdict of the bias estimate is written too
WriteBias_AlsoVerdict(confounder, bias_mag, bias_pct, is_prob) ==
    [confounder EXCEPT !.bias_magnitude = Some(bias_mag),
                       !.bias_percentage = Some(bias_pct),
                       !.is_statistically_significant = is_prob]

\* confounder.bias_magnitude = bias_mag; confounder.bias_percentage = bias_pct
WriteBias(confounder, bias_mag, bias_pct, is_prob) ==
    [confounder EXCEPT !.bias_magnitude = Some(bias_mag),
                       !.bias_percentage = Some(bias_pct)]

\* data.naive and data.adjusted are the dataset's observations for the two
\* regressions; data.binary_treatment says whether every treatment value is
\* 0 or 1 and data.mean_diff is mean(Y | T = 1) - mean(Y | T = 0)
estimate_bias(confounder, st, threshold, data) ==
    IF ~confounder.is_measured \/ Falsy(confounder.matched_column)
    THEN Raise("ValueError: Cannot quantify precise bias for unmeasured confounders.",
               confounder)
    ELSE
    LET z_col == Get(confounder.matched_column)
        naive_fit == estimate_effect(<<>>, data.naive)
    IN  IF naive_fit.raised /\ ~FallbackAvailable(data)
        THEN Raise("ValueError: Naive estimation failed on continuous treatment",
                   confounder)
        ELSE
        LET estimate_naive == IF naive_fit.raised THEN data.mean_diff
                              ELSE naive_fit.value
            adj_fit == estimate_effect(<<z_col>>, data.adjusted)
        IN  IF adj_fit.raised
            THEN AdjustedFailed(estimate_naive, confounder)
            ELSE
            LET estimate_adj == adj_fit.value
                bias_mag == estimate_naive - estimate_adj
                denom == Denominator(estimate_naive, estimate_adj)
                bias_pct == BiasPercentage(bias_mag, denom)
                is_prob == IsProblematic(bias_pct, threshold)
            IN  Return(BiasEstimationResult(estimate_naive, estimate_adj,
                                            bias_mag, bias_pct, is_prob),
                       WriteBias(confounder, bias_mag, bias_pct, is_prob))

----------------------------------------------------------------------------
(* estimation/sensitivity.py: bound_unmeasured_confounder *)

SensitivityResult(required_strength, could_invalidate_result, explanation) ==
    [required_strength |-> required_strength,
     could_invalidate_result |-> could_invalidate_result,
     explanation |-> explanation]

\* a plausible slip: an unrecognised label is read as low
severity_map_DefaultLow(sev) ==
    CASE sev = "high" -> 15
      [] sev = "medium" -> 25
      [] OTHER -> 40

\* severity_map.get(severity, 2.5), in tenths
severity_map(sev) ==
    CASE sev = "high" -> 15
      [] sev = "medium" -> 25
      [] sev = "low" -> 40
      [] OTHER -> 25

\* a plausible slip: the precondition is not checked
SensitivityMisuse_Unchecked(confounder) == FALSE

\* if confounder.is_measured: raise ValueError
SensitivityMisuse(confounder) == confounder.is_measured

\* the study and the naive estimate are parameters the body never reads;
\* strengths are in tenths, so 2.0 is 20
bound_unmeasured_confounder(confounder, st, naive_estimate) ==
    IF SensitivityMisuse(confounder)
    THEN [error |-> Some("ValueError: Sensitivity analysis is for unmeasured confounders."),
          result |-> None]
    ELSE LET req_strength ==
                 severity_map(SeverityLower(confounder.candidate.severity))
             is_serious == req_strength < 20
             desc == [text |-> IF is_serious THEN "even a moderate effect"
                               ELSE "very strongly associated",
                      name |-> confounder.candidate.name,
                      strength |-> req_strength]
         IN  [error |-> None,
              result |-> Some(SensitivityResult(req_strength, is_serious, desc))]

----------------------------------------------------------------------------
(* Specification of estimate_bias alone: one confounder, any threshold and *)
(* any outcome of the two regressions                                      *)

Estimates == {-20, -2, -1, 0, 1, 2, 18, 20, 22, 25, 40}

EffectObservations ==
    {EffectObservation(3, TRUE, 20), EffectObservation(5, TRUE, 20),
     EffectObservation(100, FALSE, 0)}
        \cup {EffectObservation(100, TRUE, e) : e \in Estimates}

BiasObservations ==
    [naive : EffectObservations, adjusted : EffectObservations,
     binary_treatment : BOOLEAN, mean_diff : {0, 20}]

\* the default of the bias_threshold parameter, 0.1, in hundredths
bias_threshold_default == 10

BiasThresholds == {5, bias_threshold_default}

\* confounders a caller may pass: confirmed (quantified before or not),
\* rejected, measured without a usable matched column, and unmeasured ones
\* of every severity label
BiasArguments ==
    {Confounder(s_age, "high", TRUE, TRUE, None),
     Confounder(s_age, "high", TRUE, TRUE, Some(Frac(200, 20))),
     Confounder(s_inc, "low", TRUE, FALSE, None),
     [Confounder(s_age, "low", TRUE, FALSE, None) EXCEPT !.matched_column = None],
     [Confounder(s_empty, "low", TRUE, FALSE, None) EXCEPT !.bias_magnitude = Some(2)]}
        \cup {Confounder(s_mot, sev, FALSE, FALSE, None) :
                 sev \in {"high", "medium", "low", "High", "severe"}}

InitBias ==
    /\ IdleAux
    /\ pc = "estimate"
    /\ IdleMatch
    /\ study = load_study(<<s_id, s_age, s_tut, s_inc, s_out>>, s_tut, s_out)
    /\ candidates = <<>> /\ alpha = 0 /\ tests = <<>>
    /\ validated \in {<<v>> : v \in BiasArguments}
    /\ naive_est = None /\ report = None
    /\ bias_threshold \in BiasThresholds
    /\ bias_data \in {Some(d) : d \in BiasObservations}
    /\ bias_result = None
    /\ error = None
    /\ IdleLoop
    /\ IdleCalls

\* estimate_bias(validated[1], study, bias_threshold)
EstimateBias ==
    /\ pc = "estimate"
    /\ LET r == estimate_bias(validated[1], study, bias_threshold, Get(bias_data))
       IN  /\ validated' = <<r.confounder>>
           /\ bias_result' = r.result
           /\ error' = r.error
    /\ pc' = "estimated"
    /\ UNCHANGED <<auxVars, study, candidates, alpha, tests, naive_est, report,
                   bias_threshold, bias_data, matchVars, loopVars, callVars>>

\* bound_unmeasured_confounder(validated[1], st, ne) for any study and any
\* naive estimate
BoundUnmeasured ==
    /\ pc = "estimate"
    /\ \E st \in Studies, ne \in {0, 22} :
          LET r == bound_unmeasured_confounder(validated[1], st, ne)
          IN  sens_result' = Some([study |-> st, naive_estimate |-> ne,
                                   error |-> r.error, result |-> r.result])
    /\ pc' = "bounded"
    /\ UNCHANGED <<auxVars, matchVars, pipeVars, biasVars, loopVars,
                   suggested, assoc, assoc_result>>

NextBias == EstimateBias \/ BoundUnmeasured

SpecBias == InitBias /\ [][NextBias]_vars

----------------------------------------------------------------------------
(* cli.py check / api/routes.py check_study: steps 5 and 6 of the pipeline *)

\* What the dataset yields for the regressions of estimate_bias on a
\* confirmed confounder. Both of its tests were fitted on at least
\* len(cols) + 5 >= 8 complete rows of a superset of the columns, so neither
\* regression is short of rows; a fit may still fail.
\* (the pool: a binary treatment whose naive regression fits or fails, and
\* a continuous one whose naive regression fails)
PipelineBiasObservations ==
    {d \in [naive : {EffectObservation(100, TRUE, 22),
                     EffectObservation(100, FALSE, 0)},
            adjusted : {EffectObservation(100, TRUE, 16),
                        EffectObservation(100, TRUE, 20),
                        EffectObservation(100, FALSE, 0)},
            binary_treatment : BOOLEAN,
            mean_diff : {20}] :
        d.naive.fit_ok => d.binary_treatment}

\* one dataset: the naive regression is the same in every call, and so is
\* the adjusted regression on the same column
SameDataset(d, z, log) ==
    \A n \in 1..Len(log) :
        /\ log[n].data.naive = d.naive
        /\ log[n].data.binary_treatment = d.binary_treatment
        /\ log[n].data.mean_diff = d.mean_diff
        /\ log[n].column = z => log[n].data.adjusted = d.adjusted

\* a plausible slip: every measured confounder is quantified
ShouldEstimateBias_Measured(v) == v.is_measured

\* if v.is_measured and v.is_statistically_significant:
ShouldEstimateBias(v) == v.is_measured /\ v.is_statistically_significant

\* one iteration of `for v in validated`
BiasStep ==
    /\ pc = "bias"
    /\ bias_i <= Len(validated)
    /\ LET v == validated[bias_i]
       IN  IF ShouldEstimateBias(v)
           THEN \E d \in PipelineBiasObservations :
                  /\ SameDataset(d, Get(v.matched_column), bias_log)
                  /\ LET r == estimate_bias(v, study, bias_threshold_default, d)
                     IN  /\ bias_log' = Append(bias_log,
                                [index |-> bias_i,
                                 column |-> Get(v.matched_column),
                                 data |-> d,
                                 error |-> r.error,
                                 result |-> r.result])
                         /\ validated' = [validated EXCEPT ![bias_i] = r.confounder]
                         /\ error' = r.error
                         /\ IF r.error = None
                            THEN /\ naive_est' =
                                      IF naive_est = None
                                      THEN Some(Get(r.result).naive_estimate)
                                      ELSE naive_est
                                 /\ bias_i' = bias_i + 1
                                 /\ pc' = pc
                            ELSE /\ naive_est' = naive_est
                                 /\ bias_i' = bias_i
                                 /\ pc' = "crashed"
           ELSE /\ bias_i' = bias_i + 1
                /\ UNCHANGED <<pc, validated, naive_est, error, bias_log>>
    /\ UNCHANGED <<auxVars, study, candidates, alpha, tests, report, matchVars,
                   bias_threshold, bias_data, bias_result, test_data, runs,
                   callVars>>

\* the loop is exhausted
BiasEnd ==
    /\ pc = "bias"
    /\ bias_i > Len(validated)
    /\ pc' = "report"
    /\ UNCHANGED <<auxVars, matchVars, pipeVars, biasVars, loopVars, callVars>>

\* report.naive_estimate or 0.0
OrZero(naive_estimate) ==
    IF naive_estimate = None THEN 0 ELSE Get(naive_estimate)

\* f"{x:+.4f}" on a field: None has no such format
Format(field) == IF field = None THEN Some("TypeError") ELSE None

\* the loop of _render_report over the ranked confounders, from position k:
\* the calls of bound_unmeasured_confounder and the formatting of the bias
\* fields, up to the first exception
RECURSIVE RenderFrom(_, _, _)
RenderFrom(k, rep, log) ==
    IF k > Len(rep.ranked_confounders) THEN log
    ELSE LET conf == rep.ranked_confounders[k].confounder
             entry ==
                IF ~conf.is_measured
                THEN [op |-> "bound_unmeasured_confounder", confounder |-> conf,
                      error |-> bound_unmeasured_confounder(conf, rep.study,
                                    OrZero(rep.naive_estimate)).error]
                ELSE IF conf.is_statistically_significant
                THEN [op |-> "format", confounder |-> conf,
                      error |-> IF Format(conf.bias_magnitude) # None
                                THEN Format(conf.bias_magnitude)
                                ELSE Format(conf.bias_percentage)]
                ELSE [op |-> "title", confounder |-> conf, error |-> None]
         IN  IF entry.error # None THEN Append(log, entry)
             ELSE RenderFrom(k + 1, rep, Append(log, entry))

\* cli.py: _render_report(report). The API serialises the same fields
\* without formatting them (routes.py:128-142).
Render ==
    /\ pc = "done"
    /\ LET log == RenderFrom(1, Get(report), <<>>)
       IN  /\ render_log' = log
           /\ pc' = IF \E n \in 1..Len(log) : log[n].error # None
                    THEN "render_failed" ELSE "rendered"
    /\ UNCHANGED <<matchVars, pipeVars, biasVars, loopVars, callVars,
                   llmVars, dataVars, slots, core_log>>

Next == Validate \/ BiasStep \/ BiasEnd \/ Report \/ Render

Spec == Init /\ [][Next]_vars

----------------------------------------------------------------------------
(* Claims about estimate_bias *)

\* estimate_bias has returned after both regressions succeeded
BothFitted ==
    /\ pc = "estimated" /\ bias_result # None
    /\ ~estimate_effect(<<>>, Get(bias_data).naive).raised
    /\ ~estimate_effect(<<Get(validated[1].matched_column)>>,
                        Get(bias_data).adjusted).raised

NaiveOf(d) == d.naive.estimate
AdjustedOf(d) == d.adjusted.estimate

\* C9: when both regressions succeed, bias_magnitude = naive - adjusted;
\* bias_percentage = magnitude / |adjusted| * 100 if |adjusted| > 1e-10,
\* else magnitude / |naive| * 100 if |naive| > 1e-10, else 0; and
\* is_problematic iff |bias_percentage| > bias_threshold * 100 (strictly).
C9_BiasArithmetic ==
    BothFitted =>
        LET n == NaiveOf(Get(bias_data))
            a == AdjustedOf(Get(bias_data))
            r == Get(bias_result)
            q == r.bias_percentage
        IN  /\ r.naive_estimate = n /\ r.adjusted_estimate = a
            /\ r.bias_magnitude = n - a
            /\ q.den > 0
            /\ IF Abs(a) > Eps THEN q.num * Abs(a) = (n - a) * 100 * q.den
               ELSE IF Abs(n) > Eps THEN q.num * Abs(n) = (n - a) * 100 * q.den
               ELSE q.num = 0
            /\ r.is_problematic <=> Abs(q.num) > bias_threshold * q.den

\* a bias percentage exactly at the threshold is not problematic
C9_Witness ==
    /\ BothFitted
    /\ Get(bias_result).bias_magnitude # 0
    /\ Abs(Get(bias_result).bias_percentage.num)
          = bias_threshold * Get(bias_result).bias_percentage.den
    /\ ~Get(bias_result).is_problematic

\* C10 as stated: the bias percentage is relative to the larger magnitude,
\* max(|naive|, |adjusted|), for every pair of estimates.
C10_DenominatorIsLarger ==
    BothFitted =>
        LET n == NaiveOf(Get(bias_data))
            a == AdjustedOf(Get(bias_data))
            q == Get(bias_result).bias_percentage
        IN  Max(Abs(n), Abs(a)) > Eps
                => q.num * Max(Abs(n), Abs(a)) = (n - a) * 100 * q.den

\* C10 amended: the bias percentage is relative to |adjusted| whenever
\* |adjusted| > 1e-10, and to |naive| only when |adjusted| <= 1e-10 < |naive|;
\* that denominator is the larger magnitude exactly when
\* |adjusted| >= |naive| or |adjusted| <= 1e-10.
C10_DenominatorIsAdjusted ==
    BothFitted =>
        LET n == NaiveOf(Get(bias_data))
            a == AdjustedOf(Get(bias_data))
            q == Get(bias_result).bias_percentage
        IN  /\ Abs(a) > Eps => q = Frac((n - a) * 100, Abs(a))
            /\ (Abs(a) <= Eps /\ Abs(n) > Eps) => q = Frac((n - a) * 100, Abs(n))
            /\ (Abs(a) > Eps \/ Abs(n) > Eps) =>
                  (q.den = Max(Abs(n), Abs(a))
                      <=> (Abs(a) >= Abs(n) \/ Abs(a) <= Eps))

\* the naive estimate is the larger one and the percentage is taken of the
\* smaller, adjusted one
C10_Witness ==
    /\ BothFitted
    /\ Abs(NaiveOf(Get(bias_data))) > Abs(AdjustedOf(Get(bias_data)))
    /\ Abs(AdjustedOf(Get(bias_data))) > Eps
    /\ Get(bias_result).bias_percentage.den = Abs(AdjustedOf(Get(bias_data)))

\* the confounder passes the precondition of estimate_bias
Quantifiable(v) == v.is_measured /\ ~Falsy(v.matched_column)

\* the naive regression of the call raised
NaiveFailed(d) == estimate_effect(<<>>, d.naive).raised

\* the adjusted regression on column z raised
AdjustedFitFailed(d, z) == estimate_effect(<<z>>, d.adjusted).raised

\* the call of estimate_bias, and the call of bound_unmeasured_confounder
CallsEstimateBias == pc = "estimate" /\ pc' = "estimated"
CallsBoundUnmeasured == pc = "estimate" /\ pc' = "bounded"

\* C11: whenever estimate_bias returns a result without raising, the
\* confounder passed to it has bias_magnitude and bias_percentage equal to
\* the result's, and no other field of it is changed.
C11_ConfounderPopulated ==
    [][(CallsEstimateBias /\ bias_result' # None) =>
          validated'[1] =
             [validated[1] EXCEPT
                 !.bias_magnitude = Some(Get(bias_result').bias_magnitude),
                 !.bias_percentage = Some(Get(bias_result').bias_percentage)]]_vars

\* estimate_bias has returned a zero-bias result after a failed adjusted
\* regression, and the confounder's bias fields are still None
C11_Witness ==
    /\ pc = "estimated" /\ bias_result # None
    /\ AdjustedFitFailed(Get(bias_data), Get(validated[1].matched_column))
    /\ Get(bias_result).bias_magnitude = 0
    /\ validated[1].bias_magnitude = None
    /\ validated[1].bias_percentage = None

\* the naive estimate of a call on data d that obtains one
NaiveEstimate(d) == IF NaiveFailed(d) THEN d.mean_diff ELSE d.naive.estimate

IsConfirmedConfounder(v) == v.is_measured /\ v.is_statistically_significant

\* C12: when the naive estimate was obtained and the adjusted regression
\* fails, estimate_bias raises nothing and returns naive = adjusted,
\* bias_magnitude 0, bias_percentage 0, is_problematic FALSE; the loop over
\* the batch goes on: every confirmed confounder is passed to estimate_bias
\* before the report, and the pipeline stops in the loop only on a failed
\* naive estimate.
C12_AdjustedFailureContained ==
    /\ \A n \in 1..Len(bias_log) :
          LET e == bias_log[n]
          IN  ((~NaiveFailed(e.data) \/ e.data.binary_treatment)
                  /\ AdjustedFitFailed(e.data, e.column)) =>
                 /\ e.error = None
                 /\ e.result = Some([naive_estimate |-> NaiveEstimate(e.data),
                                     adjusted_estimate |-> NaiveEstimate(e.data),
                                     bias_magnitude |-> 0,
                                     bias_percentage |-> Frac(0, 1),
                                     is_problematic |-> FALSE])
    /\ pc \in {"report", "done"} =>
          \A i \in 1..Len(validated) :
              IsConfirmedConfounder(validated[i]) =>
                  \E n \in 1..Len(bias_log) : bias_log[n].index = i
    /\ (pc = "crashed" /\ bias_log # <<>>) =>
          LET e == bias_log[Len(bias_log)]
          IN  NaiveFailed(e.data) /\ ~e.data.binary_treatment

\* the adjusted regression of the first confirmed confounder failed, the
\* second one was quantified, and the report was produced
C12_Witness ==
    /\ pc = "done"
    /\ Len(bias_log) = 2
    /\ AdjustedFitFailed(bias_log[1].data, bias_log[1].column)
    /\ Get(bias_log[1].result).bias_magnitude = 0
    /\ ~AdjustedFitFailed(bias_log[2].data, bias_log[2].column)
    /\ Get(bias_log[2].result).bias_magnitude # 0

\* C13: when the naive regression cannot be fit and every treatment value
\* is 0 or 1, the naive estimate is the difference of the mean outcomes and
\* estimate_bias goes on to return a result; when the treatment has another
\* value, estimate_bias raises ValueError and the confounder is unchanged.
C13_NaiveFallback ==
    [][(CallsEstimateBias /\ Quantifiable(validated[1])
           /\ NaiveFailed(Get(bias_data))) =>
          IF Get(bias_data).binary_treatment
          THEN /\ error' = None
               /\ bias_result' # None
               /\ Get(bias_result').naive_estimate = Get(bias_data).mean_diff
          ELSE /\ error' = Some("ValueError: Naive estimation failed on continuous treatment")
               /\ bias_result' = None
               /\ validated' = validated]_vars

\* the fallback gave the naive estimate and a bias was computed from it
C13_Witness ==
    /\ pc = "estimated" /\ bias_result # None
    /\ NaiveFailed(Get(bias_data))
    /\ Get(bias_data).binary_treatment
    /\ Get(bias_result).naive_estimate = Get(bias_data).mean_diff
    /\ Get(bias_result).bias_magnitude # 0

\* C14: estimate_bias on a confounder that is not measured, or has no
\* matched column, raises ValueError, returns nothing and leaves the
\* confounder unchanged; bound_unmeasured_confounder on a measured
\* confounder raises ValueError and returns no SensitivityResult.
C14_PreconditionErrors ==
    [][/\ (CallsEstimateBias /\ ~Quantifiable(validated[1])) =>
             /\ error' = Some("ValueError: Cannot quantify precise bias for unmeasured confounders.")
             /\ bias_result' = None
             /\ validated' = validated
       /\ (CallsBoundUnmeasured /\ validated[1].is_measured) =>
             /\ Get(sens_result').error
                   = Some("ValueError: Sensitivity analysis is for unmeasured confounders.")
             /\ Get(sens_result').result = None
             /\ validated' = validated]_vars

\* bound_unmeasured_confounder was called on a confirmed confounder
C14_Witness ==
    /\ pc = "bounded"
    /\ validated[1].is_measured
    /\ Get(sens_result).error # None
    /\ Get(sens_result).result = None

\* C15: for an unmeasured confounder bound_unmeasured_confounder returns
\* required_strength 1.5 for severity high, 2.5 for medium, 4.0 for low and
\* 2.5 for any other label, and could_invalidate_result iff the strength is
\* below 2.0, that is only for high; whatever the study and naive estimate.
C15_SensitivityTable ==
    (pc = "bounded" /\ ~validated[1].is_measured) =>
        LET sev == SeverityLower(validated[1].candidate.severity)
            r == Get(sens_result)
        IN  /\ r.error = None /\ r.result # None
            /\ Get(r.result).required_strength =
                  (IF sev = "high" THEN 15
                   ELSE IF sev = "medium" THEN 25
                   ELSE IF sev = "low" THEN 40
                   ELSE 25)
            /\ Get(r.result).could_invalidate_result
                  <=> Get(r.result).required_strength < 20
            /\ Get(r.result).could_invalidate_result <=> sev = "high"

\* an unrecognised label bounded at 2.5, on a study of upper-case treatment
\* and a non-zero naive estimate
C15_Witness ==
    /\ pc = "bounded"
    /\ validated[1].candidate.severity = "severe"
    /\ Get(sens_result).study.treatment = s_Tut
    /\ Get(sens_result).naive_estimate = 22
    /\ Get(Get(sens_result).result).required_strength = 25
    /\ ~Get(Get(sens_result).result).could_invalidate_result

\* the last position in validated of a confounder named n that is not
\* measured-and-rejected
LastSuggestedFor(n) ==
    CHOOSE k \in 1..Len(validated) :
        /\ validated[k].candidate.name = n /\ ~IsRejected(validated[k])
        /\ \A j \in (k + 1)..Len(validated) :
              ~(validated[j].candidate.name = n /\ ~IsRejected(validated[j]))

\* C16: suggest_corrections maps a confounder's name to "control", followed
\* by "stratify" iff |bias%| > 25 (a missing bias percentage gives
\* "control" only), when it is measured and significant; to "sensitivity"
\* then "study_design" when it is unmeasured; a measured, not significant
\* confounder gets no entry. (Of confounders of one name the last one with
\* strategies decides.)
C16_Strategies ==
    pc = "suggested" =>
        LET recs == Get(suggested)
        IN  /\ DOMAIN recs = {validated[k].candidate.name :
                                k \in {j \in 1..Len(validated) :
                                          ~IsRejected(validated[j])}}
            /\ \A n \in DOMAIN recs :
                  LET v == validated[LastSuggestedFor(n)]
                  IN  IF IsConfirmed(v)
                      THEN /\ recs[n][1] = "control"
                           /\ Len(recs[n]) \in {1, 2}
                           /\ Len(recs[n]) = 2 => recs[n][2] = "stratify"
                           /\ Len(recs[n]) = 2
                                 <=> (v.bias_percentage # None
                                      /\ FracGt(AbsBias(v), 25))
                      ELSE recs[n] = <<"sensitivity", "study_design">>

\* a confirmed confounder at exactly 25% gets "control" only, next to a
\* rejected one without entry and an unmeasured one
C16_Witness ==
    /\ pc = "suggested"
    /\ Len(validated) = 3
    /\ IsConfirmed(validated[1])
    /\ validated[1].bias_percentage = Some(Frac(25, 1))
    /\ Get(suggested)[validated[1].candidate.name] = <<"control">>
    /\ IsRejected(validated[2])
    /\ validated[2].candidate.name \notin DOMAIN Get(suggested)
    /\ ~validated[3].is_measured
    /\ Get(suggested)[validated[3].candidate.name]
          = <<"sensitivity", "study_design">>

----------------------------------------------------------------------------
(* Specification of check_conditional_association alone: any call on a     *)
(* dataset that holds the named columns                                    *)

\* complete rows around the bounds len(cols) + 5 = 7, 8, 9
AssocRows == {5, 6, 7, 8, 9, 10}

\* control lists of a call with target tut and predictor age; the last one
\* names the target again
AssocControls == {<<>>, <<s_inc>>, <<s_inc, s_id>>, <<s_tut, s_inc>>}

\* a target whose values are all 0/1 converts to float
AssocObservations ==
    {o \in {OnTarget(Observation(rows, ok, p), binary, numeric) :
               rows \in AssocRows, ok \in BOOLEAN, p \in {10, 50},
               binary \in BOOLEAN, numeric \in BOOLEAN} :
        o.binary_values => o.numeric_target}

InitAssoc ==
    /\ IdleAux
    /\ pc = "test"
    /\ IdleMatch
    /\ IdlePipe
    /\ IdleBias
    /\ IdleLoop
    /\ sens_result = None /\ suggested = None
    /\ assoc \in {Some([target |-> s_tut, predictor |-> s_age, controls |-> c,
                        obs |-> o, alpha |-> a, is_binary_target |-> b]) :
                     c \in AssocControls, o \in AssocObservations,
                     a \in Alphas, b \in BOOLEAN}
    /\ assoc_result = None

\* check_conditional_association(target, predictor, controls, data, alpha,
\* is_binary_target)
TestAssociation ==
    /\ pc = "test"
    /\ LET c == Get(assoc)
       IN  assoc_result' =
              Some(check_conditional_association(c.target, c.predictor,
                       c.controls, c.obs, c.alpha, c.is_binary_target))
    /\ pc' = "tested"
    /\ UNCHANGED <<auxVars, matchVars, pipeVars, biasVars, loopVars,
                   sens_result, suggested, assoc>>

NextAssoc == TestAssociation

SpecAssoc == InitAssoc /\ [][NextAssoc]_vars

----------------------------------------------------------------------------
(* Claims about check_conditional_association *)

AssocCols == <<Get(assoc).target, Get(assoc).predictor>> \o Get(assoc).controls

\* C17: with fewer complete rows than len(cols) + 5 the call returns
\* p = 1.0, not significant, and the insufficient-data marker, and nothing
\* is fitted; with at least that many rows the marker is not returned and
\* the outcome is that of the fit.
C17_InsufficientRows ==
    pc = "tested" =>
        LET c == Get(assoc)
            r == Get(assoc_result)
        IN  IF c.obs.complete_rows < Len(AssocCols) + 5
            THEN r = [raised |-> None, p_value |-> 1000,
                      is_significant |-> FALSE,
                      details |-> [error |->
                                      Some("Insufficient data after dropping NaNs"),
                                   model_type |-> None]]
            ELSE /\ r.details.error # Some("Insufficient data after dropping NaNs")
                 /\ r.raised = None =>
                       IF c.obs.fit_ok
                       THEN r.details.model_type # None /\ r.p_value = c.obs.pval
                       ELSE r.details.error = Some("str(e)") /\ r.p_value = 1000

\* exactly len(cols) + 5 complete rows: the model is fitted
C17_Witness ==
    /\ pc = "tested"
    /\ Len(AssocCols) = 3
    /\ Get(assoc).obs.complete_rows = 8
    /\ Get(assoc_result).details.model_type # None
    /\ Get(assoc_result).p_value = 10

\* C18 as stated: no call of check_conditional_association raises, and
\* validate_candidates always completes over all candidates.
C18_NeverRaises ==
    /\ \A n \in 1..Len(tests) : tests[n].result.raised = None
    /\ pc = "crashed" => bias_log # <<>>

\* validate_candidates was left by the AttributeError of a test whose
\* target is also among its controls
C18_Witness ==
    /\ pc = "crashed" /\ bias_log = <<>>
    /\ error = Some("AttributeError")
    /\ tests # <<>>
    /\ LET t == tests[Len(tests)]
       IN  /\ t.result.raised = Some("AttributeError")
           /\ t.call.target \in Range(t.call.controls)

\* C19: the model is the logistic regression iff the caller declared the
\* target binary or every target value among the complete rows is 0 or 1,
\* and ordinary least squares otherwise; model_type names the model fitted
\* and significance is p < alpha of the predictor's coefficient.
C19_ModelSelection ==
    (pc = "tested" /\ Get(assoc_result).details.model_type # None) =>
        LET c == Get(assoc)
            r == Get(assoc_result)
        IN  /\ Get(r.details.model_type) \in {"Logit", "OLS"}
            /\ Get(r.details.model_type) = "Logit"
                  <=> (c.is_binary_target \/ c.obs.binary_values)
            /\ r.p_value = c.obs.pval
            /\ r.is_significant <=> r.p_value < c.alpha

\* an undeclared target of 0/1 values fitted by Logit, with p = alpha
C19_Witness ==
    /\ pc = "tested"
    /\ ~Get(assoc).is_binary_target
    /\ Get(assoc).obs.binary_values
    /\ Get(assoc_result).details.model_type = Some("Logit")
    /\ Get(assoc_result).p_value = Get(assoc).alpha
    /\ ~Get(assoc_result).is_significant

----------------------------------------------------------------------------
(* Specification of two runs of the pipeline on the same inputs: the       *)
(* second run starts in the state the first one left                       *)

\* what a run produced: the exception that ended it, the validated list
\* and, when the report was built, the ranked list
RunOutcome ==
    [error |-> error,
     validated |-> validated,
     ranked |-> IF pc = "done" THEN Some(Get(report).ranked_confounders)
                ELSE None]

\* the caller runs the pipeline again on the same study and candidates
Restart ==
    /\ pc \in {"done", "crashed"}
    /\ runs = <<>>
    /\ runs' = <<RunOutcome>>
    /\ pc' = "validate"
    /\ UNCHANGED <<auxVars, matchVars, pipeVars, biasVars, bias_i, bias_log, test_data,
                   callVars>>

TwiceCandidateLists ==
    {<<>>,
     <<ConfounderCandidate(s_age, "medium")>>,
     <<ConfounderCandidate(s_age, "medium"), ConfounderCandidate(s_u_id, "medium")>>,
     <<ConfounderCandidate(s_u_age, "low"), ConfounderCandidate(s_age, "medium")>>,
     <<ConfounderCandidate(s_mot, "low"), ConfounderCandidate(s_age, "medium")>>,
     <<ConfounderCandidate(s_out, "low"), ConfounderCandidate(s_iq, "high")>>}

InitTwice ==
    /\ IdleAux
    /\ pc = "validate"
    /\ IdleMatch
    /\ study \in Studies
    /\ candidates \in TwiceCandidateLists
    /\ alpha \in Alphas
    /\ validated = <<>>
    /\ tests = <<>>
    /\ naive_est = None
    /\ report = None
    /\ IdleBias
    /\ IdleLoop
    /\ IdleCalls

NextTwice == Validate \/ BiasStep \/ BiasEnd \/ Report \/ Restart

SpecTwice == InitTwice /\ [][NextTwice]_vars

----------------------------------------------------------------------------
(* Claims about repeated runs *)

\* the second run has ended
SecondRunEnded == pc \in {"done", "crashed"} /\ Len(runs) = 1

----------------------------------------------------------------------------
(* The core operations called in any order on one Study: validate_candidates, *)
(* estimate_bias, bound_unmeasured_confounder, rank_confounders,           *)
(* suggest_corrections, generate_report                                    *)

MaxCalls == 3

\* what the dataset yields for a test: significant or not at alpha 0.05
CoreObservations == {Observation(100, TRUE, 10), Observation(100, TRUE, 50)}

\* what the dataset yields for the regressions of estimate_bias
CoreBiasObservations ==
    {d \in PipelineBiasObservations : d.naive.fit_ok /\ d.adjusted.estimate # 20}

CoreCall(op, index, err) == [op |-> op, index |-> index, error |-> err]

InitCore ==
    /\ IdleAux
    /\ pc = "core"
    /\ IdleMatch
    /\ study \in Studies
    /\ candidates \in TwiceCandidateLists
    /\ alpha = 50
    /\ validated = <<>>
    /\ tests = <<>>
    /\ naive_est = None
    /\ report = None
    /\ IdleBias
    /\ IdleLoop
    /\ IdleCalls

\* validated = validate_candidates(candidates, study)
CoreValidate ==
    /\ pc = "core" /\ Len(core_log) < MaxCalls
    /\ \E obs \in [TestedColumns(candidates, study) ->
                      [t : CoreObservations, y : CoreObservations]] :
          /\ test_data # None => obs = Get(test_data)
          /\ test_data' = Some(obs)
          /\ LET r == validate_candidates(candidates, study, alpha, obs)
             IN  /\ tests' = r.tests
                 /\ error' = r.raised
                 /\ validated' = IF r.raised = None THEN r.validated
                                 ELSE validated
                 /\ core_log' = Append(core_log,
                                    CoreCall("validate_candidates", 0, r.raised))
    /\ UNCHANGED <<pc, study, candidates, alpha, naive_est, report, matchVars,
                   bias_threshold, bias_data, bias_result, bias_i, bias_log,
                   runs, callVars, llmVars, dataVars, slots, render_log>>

\* estimate_bias(validated[i], study), on any record of the list
CoreEstimateBias ==
    /\ pc = "core" /\ Len(core_log) < MaxCalls
    /\ \E i \in 1..Len(validated), d \in CoreBiasObservations :
          /\ validated[i].matched_column # None =>
                SameDataset(d, Get(validated[i].matched_column), bias_log)
          /\ LET r == estimate_bias(validated[i], study,
                                    bias_threshold_default, d)
             IN  /\ validated' = [validated EXCEPT ![i] = r.confounder]
                 /\ bias_result' = r.result
                 /\ error' = r.error
                 /\ bias_log' =
                       IF validated[i].matched_column = None THEN bias_log
                       ELSE Append(bias_log,
                               [index |-> i,
                                column |-> Get(validated[i].matched_column),
                                data |-> d, error |-> r.error,
                                result |-> r.result])
                 /\ core_log' = Append(core_log,
                                    CoreCall("estimate_bias", i, r.error))
    /\ UNCHANGED <<pc, study, candidates, alpha, tests, naive_est, report,
                   matchVars, bias_threshold, bias_data, bias_i, test_data,
                   runs, callVars, llmVars, dataVars, slots, render_log>>

\* bound_unmeasured_confounder(validated[i], study, 0.0), on any record
CoreBoundUnmeasured ==
    /\ pc = "core" /\ Len(core_log) < MaxCalls
    /\ \E i \in 1..Len(validated) :
          LET r == bound_unmeasured_confounder(validated[i], study, 0)
          IN  /\ sens_result' = Some([study |-> study, naive_estimate |-> 0,
                                      error |-> r.error, result |-> r.result])
              /\ error' = r.error
              /\ core_log' = Append(core_log,
                                 CoreCall("bound_unmeasured_confounder", i,
                                          r.error))
    /\ UNCHANGED <<pc, matchVars, pipeVars, bias_threshold, bias_data,
                   bias_result, loopVars, suggested, assoc, assoc_result,
                   llmVars, dataVars, slots,
                   render_log>>

\* rank_confounders(validated): the ranked list is returned
CoreRank ==
    /\ pc = "core" /\ Len(core_log) < MaxCalls
    /\ slots' = rank_confounders(validated)
    /\ core_log' = Append(core_log, CoreCall("rank_confounders", 0, None))
    /\ UNCHANGED <<pc, matchVars, pipeVars, biasVars, loopVars, callVars,
                   llmVars, dataVars,
                   render_log>>

\* suggest_corrections(validated): the mapping is returned
CoreSuggest ==
    /\ pc = "core" /\ Len(core_log) < MaxCalls
    /\ suggested' = Some(suggest_corrections(validated))
    /\ core_log' = Append(core_log, CoreCall("suggest_corrections", 0, None))
    /\ UNCHANGED <<pc, matchVars, pipeVars, biasVars, loopVars, sens_result,
                   assoc, assoc_result, llmVars, dataVars, slots, render_log>>

\* generate_report(study, validated, naive_estimate=None)
CoreReport ==
    /\ pc = "core" /\ Len(core_log) < MaxCalls
    /\ report' = Some(generate_report(study, validated, None, None))
    /\ core_log' = Append(core_log, CoreCall("generate_report", 0, None))
    /\ UNCHANGED <<pc, study, candidates, alpha, validated, tests, naive_est,
                   matchVars, biasVars, loopVars, callVars, llmVars, dataVars, slots, render_log>>

NextCore ==
    \/ CoreValidate
    \/ CoreEstimateBias
    \/ CoreBoundUnmeasured
    \/ CoreRank
    \/ CoreSuggest
    \/ CoreReport

SpecCore == InitCore /\ [][NextCore]_vars

----------------------------------------------------------------------------
(* Claim about the Study under the core operations *)

\* the operation of the last call made
LastOp == core_log[Len(core_log)].op

\* C21: no core operation changes the Study (its data's columns, treatment,
\* outcome, measured_covariates) or the candidate list, whatever the order
\* of the calls; a record of the validated list changes only by
\* estimate_bias on that record, and then only in bias_magnitude and
\* bias_percentage (validate_candidates returns a new list).
C21_StudyNeverMutated ==
    [][/\ study' = study
       /\ candidates' = candidates
       /\ test_data # None => test_data' = test_data
       /\ validated' # validated =>
             \/ LastOp' = "validate_candidates"
             \/ /\ LastOp' = "estimate_bias"
                /\ Len(validated') = Len(validated)
                /\ \E i \in 1..Len(validated) :
                      validated' =
                         [validated EXCEPT
                            ![i].bias_magnitude = validated'[i].bias_magnitude,
                            ![i].bias_percentage = validated'[i].bias_percentage]
      ]_vars

\* estimate_bias has written the bias fields of a record after validation,
\* and a later call ranked or reported the list
C21_Witness ==
    /\ pc = "core"
    /\ Len(core_log) = 3
    /\ core_log[1].op = "validate_candidates"
    /\ core_log[2].op = "estimate_bias" /\ core_log[2].error = None
    /\ core_log[3].op \in {"generate_report", "rank_confounders"}
    /\ \E i \in 1..Len(validated) :
          /\ validated[i].bias_magnitude # None
          /\ Get(validated[i].bias_magnitude) # 0
    /\ study \in Studies

----------------------------------------------------------------------------
(* validate_candidates run as one task per candidate: each task is one     *)
(* iteration of the loop (validator.py:76-125) on a list of its own, the   *)
(* tasks complete in any order, and the results are collected by the       *)
(* candidate's index and ranked                                            *)

ParCandidateLists ==
    TwiceCandidateLists
        \cup {<<ConfounderCandidate(s_age, "medium"),
                ConfounderCandidate(s_u_age, "low")>>,
              <<ConfounderCandidate(s_iq, "low"),
                ConfounderCandidate(s_age, "high")>>,
              <<ConfounderCandidate(s_inc, "high"),
                ConfounderCandidate(s_age, "high")>>}

\* the list a task starts from
TaskList == [validated |-> <<>>, tests |-> <<>>, raised |-> None]

InitPar ==
    /\ pc = "tasks"
    /\ IdleMatch
    /\ study \in Studies
    /\ candidates \in ParCandidateLists
    /\ alpha \in Alphas
    /\ validated = <<>>
    /\ tests = <<>>
    /\ naive_est = None
    /\ report = None
    /\ IdleBias
    /\ bias_i = 0 /\ bias_log = <<>> /\ runs = <<>>
    /\ test_data \in {Some(obs) :
                        obs \in [TestedColumns(candidates, study) ->
                                    [t : Observations, y : Observations]]}
    /\ IdleCalls
    /\ llm_response = None /\ parse_result = None /\ llm = None
    /\ load_args = None /\ val_study = None /\ val_res = None
    /\ render_log = <<>> /\ core_log = <<>>
    /\ slots = [k \in 1..Len(candidates) |-> None]

\* the task of candidate k completes
ValidateTask ==
    /\ pc = "tasks"
    /\ \E k \in 1..Len(candidates) :
          /\ slots[k] = None
          /\ LET r == ValidateOne(k, candidates[k], study, alpha,
                                  Get(test_data), TaskList)
             IN  /\ slots' = [slots EXCEPT ![k] = Some(r)]
                 /\ core_log' = Append(core_log,
                                    CoreCall("validate_task", k, r.raised))
    /\ UNCHANGED <<pc, matchVars, pipeVars, biasVars, loopVars, callVars,
                   llmVars, dataVars,
                   render_log>>

\* the records of tasks k.. in the order of the candidates
RECURSIVE CollectFrom(_, _)
CollectFrom(k, done) ==
    IF k > Len(done) THEN <<>>
    ELSE Get(done[k]).validated \o CollectFrom(k + 1, done)

\* the exception of the first candidate, by index, whose task raised
FirstRaised(done) ==
    LET R == {k \in 1..Len(done) : Get(done[k]).raised # None}
    IN  IF R = {} THEN None ELSE Get(done[Min(R)]).raised

\* every task has completed: the results are collected and ranked
Collect ==
    /\ pc = "tasks"
    /\ \A k \in 1..Len(slots) : slots[k] # None
    /\ error' = FirstRaised(slots)
    /\ IF FirstRaised(slots) = None
       THEN /\ validated' = CollectFrom(1, slots)
            /\ report' = Some(generate_report(study, CollectFrom(1, slots),
                                              None, None))
       ELSE UNCHANGED <<validated, report>>
    /\ pc' = "collected"
    /\ UNCHANGED <<study, candidates, alpha, tests, naive_est, matchVars,
                   bias_threshold, bias_data, bias_result, loopVars, callVars,
                   auxVars>>

NextPar == ValidateTask \/ Collect

SpecPar == InitPar /\ [][NextPar]_vars

----------------------------------------------------------------------------
(* Claim about the independence of the candidates *)

\* the sequential run on the same study, candidates and dataset
Sequential == validate_candidates(candidates, study, alpha, Get(test_data))

\* the tasks completed in the order of core_log
CompletionOrder == [n \in 1..Len(core_log) |-> core_log[n].index]

\* C22: the record made for a candidate depends only on the candidate and
\* the Study: a task run alone, in any order with the others, makes the
\* record the sequential run makes, so the records collected by index are
\* the list validate_candidates returns and their ranking is the ranking of
\* that list (and the run fails iff the sequential run fails, on the same
\* exception).
C22_OrderIndependent ==
    /\ pc = "tasks" =>
          \A k \in 1..Len(slots) :
             slots[k] # None /\ Sequential.raised = None =>
                /\ Get(slots[k]).raised = None
                /\ ~Kept(candidates[k]) => Get(slots[k]).validated = <<>>
                /\ Kept(candidates[k]) =>
                      /\ OutIndex(k) <= Len(Sequential.validated)
                      /\ Get(slots[k]).validated =
                            <<Sequential.validated[OutIndex(k)]>>
    /\ pc = "collected" =>
          /\ error = Sequential.raised
          /\ error = None =>
                /\ validated = Sequential.validated
                /\ Get(report).ranked_confounders =
                      rank_confounders(Sequential.validated)

\* two tasks completed in the reverse of the candidates' order, both made a
\* record, and the ranking puts the second candidate first
C22_Witness ==
    /\ pc = "collected"
    /\ error = None
    /\ CompletionOrder = <<2, 1>>
    /\ Len(validated) = 2
    /\ Len(Get(report).ranked_confounders) = 2
    /\ Get(report).ranked_confounders[1].confounder = validated[2]

----------------------------------------------------------------------------
(* Specification of the Study assembly alone: load_study (CLI) and the     *)
(* same lines of check_study (API), on any dataset columns and any         *)
(* treatment and outcome names                                             *)

s_ID   == <<"I", "D">>
s_Date == <<"D", "a", "t", "e">>
s_TUT  == <<"T", "U", "T">>

MaxLoadCols == 3

LoadNames == {s_id, s_ID, s_Date, s_age, s_tut, s_Tut, s_TUT, s_out}

\* the column lists of a dataset: no name twice
LoadColumnLists ==
    {cols \in UNION {[1..n -> LoadNames] : n \in 2..MaxLoadCols} :
        \A j, k \in 1..Len(cols) : j # k => cols[j] # cols[k]}

InitLoad ==
    /\ pc = "load"
    /\ IdleMatch
    /\ IdlePipe
    /\ IdleBias
    /\ IdleLoop
    /\ IdleCalls
    /\ llm_response = None /\ parse_result = None /\ llm = None
    /\ val_study = None /\ val_res = None
    /\ slots = <<>> /\ render_log = <<>> /\ core_log = <<>>
    /\ load_args \in {Some([columns |-> cols, treatment |-> t, outcome |-> y]) :
                        cols \in LoadColumnLists,
                        t \in {s_tut, s_Tut, s_age}, y \in {s_out, s_ID}}

\* cli.py step 1: study = load_study(data, treatment, outcome, ...)
LoadStudy ==
    /\ pc = "load"
    /\ LET a == Get(load_args)
       IN  IF a.treatment \notin Range(a.columns)
           THEN /\ error' = Some("ValueError: Treatment column not found in data")
                /\ study' = study
           ELSE IF a.outcome \notin Range(a.columns)
           THEN /\ error' = Some("ValueError: Outcome column not found in data")
                /\ study' = study
           ELSE /\ error' = None
                /\ study' = load_study(a.columns, a.treatment, a.outcome)
    /\ pc' = "loaded"
    /\ UNCHANGED <<candidates, alpha, validated, tests, naive_est, report,
                   matchVars, bias_threshold, bias_data, bias_result,
                   loopVars, callVars, auxVars>>

\* routes.py:81-94: the Study is assembled with the same exclusion, and
\* without the check that the two names are columns
AssembleStudy ==
    /\ pc = "load"
    /\ LET a == Get(load_args)
       IN  study' = load_study(a.columns, a.treatment, a.outcome)
    /\ pc' = "assembled"
    /\ UNCHANGED <<candidates, alpha, validated, tests, naive_est, report,
                   matchVars, biasVars, loopVars, callVars, auxVars>>

NextLoad == LoadStudy \/ AssembleStudy

SpecLoad == InitLoad /\ [][NextLoad]_vars

----------------------------------------------------------------------------
(* Claim about the Study's covariate list *)

ReservedNames == {s_id, s_index, s_timestamp, s_date}

StudyBuilt == pc \in {"loaded", "assembled"} /\ study # None

\* C23: the Study built by load_study and by check_study has a
\* measured_covariates list without the treatment column, without the
\* outcome column and without a column named id, index, timestamp or date
\* in any letter case; every other column of the dataset is in it, in
\* dataset order.
C23_CovariatesExcludeCore ==
    StudyBuilt =>
       LET a == Get(load_args)
       IN  /\ a.treatment \notin Range(study.measured_covariates)
           /\ a.outcome \notin Range(study.measured_covariates)
           /\ \A c \in Range(study.measured_covariates) :
                 Lower(c) \notin ReservedNames
           /\ study.measured_covariates =
                 SelectSeq(a.columns,
                           LAMBDA c : /\ c \notin {a.treatment, a.outcome}
                                      /\ Lower(c) \notin ReservedNames)

\* load_study returned a Study whose treatment column is a covariate
C23_Witness ==
    /\ pc = "loaded"
    /\ error = None
    /\ study # None
    /\ study.treatment \in Range(study.columns)
    /\ study.outcome \in Range(study.columns)
    /\ study.treatment \in Range(study.measured_covariates)

----------------------------------------------------------------------------
(* llm/parser.py: ConfounderCandidate, parse_candidates *)

\* JSON values as json.loads returns them
JNull == [type |-> "null"]
JNumber(n) == [type |-> "number", number |-> n]
JString(s) == [type |-> "string", value |-> s]
JArray(items) == [type |-> "array", items |-> items]
\* an object: the function from its keys to their values
JObject(at) == [type |-> "object", at |-> at]

\* a text json.loads rejects
Malformed == [type |-> "malformed"]

\* str.strip(): leading and trailing whitespace removed
Whitespace == {" ", "\t", "\n"}
RECURSIVE LStrip(_)
LStrip(s) ==
    IF s # <<>> /\ Head(s) \in Whitespace THEN LStrip(Tail(s)) ELSE s
RECURSIVE RStrip(_)
RStrip(s) ==
    IF s # <<>> /\ s[Len(s)] \in Whitespace
    THEN RStrip(SubSeq(s, 1, Len(s) - 1)) ELSE s
Strip(s) == RStrip(LStrip(s))

\* str.replace(" ", "_")
SpacesToUnderscores(s) ==
    [k \in 1..Len(s) |-> IF s[k] = " " THEN "_" ELSE s[k]]

s_None   == <<"N", "o", "n", "e">>
s_medium == <<"m", "e", "d", "i", "u", "m">>
s_high   == <<"h", "i", "g", "h">>
s_low    == <<"l", "o", "w">>

\* str(value) of a JSON value an item may hold
Str(v) ==
    CASE v.type = "string" -> v.value
      [] v.type = "null" -> s_None
      [] OTHER -> <<"?">>

\* item.get(key, default) on a dict
ItemGet(item, key, default) ==
    IF key \in DOMAIN item.at THEN item.at[key] ELSE default

\* the dataclass with its five fields
ParsedCandidate(name, description, causes_treatment_because, causes_outcome_because, severity) ==
    [name |-> name, description |-> description,
     causes_treatment_because |-> causes_treatment_because,
     causes_outcome_because |-> causes_outcome_because,
     severity |-> severity]

\* bool(self.name and self.causes_treatment_because and
\*      self.causes_outcome_because)
is_plausible(c) ==
    c.name # <<>> /\ c.causes_treatment_because # <<>>
        /\ c.causes_outcome_because # <<>>

\* the candidate built from one item of the list (a dict)
CandidateOf(item) ==
    ParsedCandidate(
        SpacesToUnderscores(Lower(Strip(Str(ItemGet(item, "name", JString(<<>>)))))),
        Strip(Str(ItemGet(item, "description", JString(<<>>)))),
        Strip(Str(ItemGet(item, "causes_treatment_because", JString(<<>>)))),
        Strip(Str(ItemGet(item, "causes_outcome_because", JString(<<>>)))),
        Lower(Strip(Str(ItemGet(item, "severity", JString(s_medium))))))

\* step 4: an item without get() raises inside the try and is skipped, as
\* is an implausible candidate
RECURSIVE Convert(_)
Convert(items) ==
    IF items = <<>> THEN <<>>
    ELSE IF Head(items).type = "object" /\ is_plausible(CandidateOf(Head(items)))
         THEN <<CandidateOf(Head(items))>> \o Convert(Tail(items))
    ELSE Convert(Tail(items))

\* step 1: the response is a body, bare or inside a markdown fence. The
\* pattern wants whitespace after ```json and before the closing ```; a
\* fence without it is stripped of its backticks only, which leaves the
\* word json in front of a body tagged json.
Response(fence, body) == [fence |-> fence, body |-> body]
Fences == {"none", "json_spaced", "plain_spaced", "plain_tight", "json_tight"}
Cleaned(response) ==
    IF response.fence = "json_tight" THEN Malformed ELSE response.body

ParseRaise(exc, message) ==
    [raised |-> Some([type |-> exc, message |-> message]), value |-> <<>>]
ParseReturn(results) == [raised |-> None, value |-> results]

\* steps 2 to 4. data.get stands outside any try: a value that is not a
\* dict has no get().
parse_candidates(response) ==
    LET data == Cleaned(response)
    IN  IF data.type = "malformed"
        THEN ParseRaise("ValueError", "LLM returned malformed JSON.")
        ELSE IF data.type # "object"
        THEN ParseRaise("AttributeError", "object has no attribute 'get'")
        ELSE LET candidates_data ==
                     ItemGet(data, "candidates", JArray(<<>>))
             IN  IF candidates_data.type # "array"
                 THEN ParseRaise("ValueError",
                                 "JSON does not contain a 'candidates' array.")
                 ELSE ParseReturn(Convert(candidates_data.items))

----------------------------------------------------------------------------
(* Specification of parse_candidates alone: any response of the pool *)

s_my_age == <<" ", "M", "y", " ", "A", "g", "e", " ">>
s_blank  == <<" ", " ">>
s_x      == <<"x">>
s_y      == <<" ", "y", "\n">>
s_High   == <<"H", "i", "g", "h">>
s_severe == <<"s", "e", "v", "e", "r", "e">>
s_low_sp == <<" ", "l", "o", "w", " ">>

\* a complete item with the given name and severity values
FullItem(name, severity) ==
    JObject([name |-> name, description |-> JString(s_x),
             causes_treatment_because |-> JString(s_x),
             causes_outcome_because |-> JString(s_y),
             severity |-> severity])

\* items a response may list: complete ones, ones lacking a name or a
\* mechanism (absent, empty, blank, null), ones with other severity labels
\* or none, and an item that is not an object
ItemPool ==
    {FullItem(JString(s_Age), JString(s_High)),
     FullItem(JString(s_my_age), JString(s_low_sp)),
     FullItem(JString(s_empty), JString(s_High)),
     FullItem(JString(s_blank), JString(s_High)),
     FullItem(JNull, JString(s_medium)),
     FullItem(JString(s_age), JString(s_severe)),
     FullItem(JString(s_age), JString(s_empty)),
     JObject([name |-> JString(s_inc),
              causes_treatment_because |-> JString(s_x),
              causes_outcome_because |-> JString(s_y)]),
     JObject([description |-> JString(s_x),
              causes_treatment_because |-> JString(s_x),
              causes_outcome_because |-> JString(s_y)]),
     JObject([name |-> JString(s_age), description |-> JString(s_x)]),
     JObject([name |-> JString(s_age),
              causes_treatment_because |-> JString(s_blank),
              causes_outcome_because |-> JString(s_y)]),
     JObject([name |-> JString(s_age),
              causes_treatment_because |-> JString(s_x)]),
     JString(s_age)}

MaxItems == 2

ItemLists == UNION {[1..n -> ItemPool] : n \in 0..MaxItems}

\* the wrapped form and the direct array form of a candidate list
Wrapped(items) == JObject([candidates |-> JArray(items)])
Direct(items) == JArray(items)

Bodies ==
    {Wrapped(items) : items \in ItemLists}
        \cup {Direct(items) : items \in ItemLists}
        \cup {JObject([confounders |-> JArray(items)]) : items \in ItemLists}
        \cup {Malformed, JObject(<<>>), JNull, JNumber(42), JString(s_x),
              JObject([candidates |-> JNull]),
              JObject([candidates |-> JString(s_x)]),
              JObject([candidates |-> Wrapped(<<>>)])}

InitParse ==
    /\ pc = "parse"
    /\ IdleMatch
    /\ IdlePipe
    /\ IdleBias
    /\ IdleLoop
    /\ IdleCalls
    /\ llm = None
    /\ load_args = None /\ val_study = None /\ val_res = None
    /\ slots = <<>> /\ render_log = <<>> /\ core_log = <<>>
    /\ llm_response \in {Some(Response(f, b)) : f \in Fences, b \in Bodies}
    /\ parse_result = None

\* candidates = parse_candidates(response)
Parse ==
    /\ pc = "parse"
    /\ parse_result' = Some(parse_candidates(Get(llm_response)))
    /\ pc' = "parsed"
    /\ UNCHANGED <<matchVars, pipeVars, biasVars, loopVars, callVars,
                   llm_response, llm, dataVars, slots, render_log, core_log>>

NextParse == Parse

SpecParse == InitParse /\ [][NextParse]_vars

----------------------------------------------------------------------------
(* Claims about parse_candidates *)

Parsed == pc = "parsed"
ParseResult == Get(parse_result)
\* the JSON value the response holds (after the fence is removed)
ParsedData == Cleaned(Get(llm_response))

\* C24: every candidate parse_candidates returns has a normalized name
\* (non-empty, lower-case, without a space), non-empty mechanism texts and
\* a severity that is low, medium or high.
C24_CandidatesNormalized ==
    Parsed /\ ParseResult.raised = None =>
       \A k \in 1..Len(ParseResult.value) :
          LET c == ParseResult.value[k]
          IN  /\ c.name # <<>>
              /\ Lower(c.name) = c.name
              /\ " " \notin Range(c.name)
              /\ c.causes_treatment_because # <<>>
              /\ c.causes_outcome_because # <<>>
              /\ c.severity \in {s_low, s_medium, s_high}

\* a candidate is returned whose severity is none of the three labels
C24_Witness ==
    /\ Parsed
    /\ ParseResult.raised = None
    /\ \E k \in 1..Len(ParseResult.value) :
          /\ ParseResult.value[k].severity \notin {s_low, s_medium, s_high}
          /\ ParseResult.value[k].name = s_age

\* the response holds a list of candidates: wrapped or as a direct array
HoldsCandidateList(data) ==
    \/ data.type = "array"
    \/ /\ data.type = "object"
       /\ "candidates" \in DOMAIN data.at
       /\ data.at["candidates"].type = "array"

\* the list of items the response holds
ItemsOf(data) ==
    IF data.type = "array" THEN data.items ELSE data.at["candidates"].items

\* the item names a name and both mechanism texts (after stripping)
Complete(item) ==
    /\ item.type = "object"
    /\ \A key \in {"name", "causes_treatment_because", "causes_outcome_because"} :
          /\ key \in DOMAIN item.at
          /\ Strip(Str(item.at[key])) # <<>>

\* C25: a response that is not valid JSON, or whose JSON holds no list of
\* candidates, ends in ValueError; a response in the wrapped form returns,
\* without raising, the candidates of the complete items in order, the other
\* items being dropped.
C25_StructureErrors ==
    Parsed =>
       /\ ~HoldsCandidateList(ParsedData) =>
             /\ ParseResult.raised # None
             /\ Get(ParseResult.raised).type = "ValueError"
       /\ ParsedData.type = "object" /\ HoldsCandidateList(ParsedData) =>
             /\ ParseResult.raised = None
             /\ ParseResult.value =
                   [k \in 1..Len(SelectSeq(ItemsOf(ParsedData), Complete)) |->
                       CandidateOf(SelectSeq(ItemsOf(ParsedData), Complete)[k])]

\* a response that is valid JSON without a list of candidates is parsed
\* without an exception
C25_Witness ==
    /\ Parsed
    /\ ParsedData = JObject(<<>>)
    /\ ParseResult.raised = None
    /\ ParseResult.value = <<>>

\* C28: a response whose top-level JSON value is an array of candidate
\* objects is parsed as the candidate list: it yields what the same list
\* yields under a "candidates" key.
C28_DirectArray ==
    Parsed /\ ParsedData.type = "array" =>
       ParseResult = parse_candidates(Response("none", Wrapped(ParsedData.items)))

\* a direct array with a complete item ends in an exception
C28_Witness ==
    /\ Parsed
    /\ ParsedData.type = "array"
    /\ \E k \in 1..Len(ParsedData.items) : Complete(ParsedData.items[k])
    /\ ParseResult.raised # None
    /\ Get(ParseResult.raised).type = "AttributeError"

----------------------------------------------------------------------------
(* llm/adapter.py: LLMAdapter.complete *)

\* llm_max_retries: Field(default=3, ge=1, le=10); the model goes up to
MaxRetries == 4

\* a plausible slip: the wait is taken after every failed attempt
ShouldSleep_Always(attempt, max_retries) == TRUE

\* if attempt < max_retries: time.sleep(wait)
ShouldSleep(attempt, max_retries) == attempt < max_retries

\* wait = 2 ** (attempt - 1)
Backoff(attempt) == 2 ^ (attempt - 1)

\* response.choices[0].message.content or ""
ContentOrEmpty(content) == IF content = None THEN <<>> ELSE Get(content)

\* what one provider call does: it returns a response with a content (or
\* with none), or anything inside the try raises an Exception
ProviderOutcomes ==
    {[ok |-> TRUE, content |-> Some(s_x), exc |-> None],
     [ok |-> TRUE, content |-> None, exc |-> None],
     [ok |-> FALSE, content |-> None, exc |-> Some("APIError")],
     [ok |-> FALSE, content |-> None, exc |-> Some("IndexError")]}

\* the call as it stands before the first iteration of the loop
InitLLM ==
    /\ pc = "complete"
    /\ IdleMatch
    /\ IdlePipe
    /\ IdleBias
    /\ IdleLoop
    /\ IdleCalls
    /\ llm_response = None /\ parse_result = None
    /\ load_args = None /\ val_study = None /\ val_res = None
    /\ slots = <<>> /\ render_log = <<>> /\ core_log = <<>>
    /\ llm \in {[max_retries |-> n, attempt |-> 1, calls |-> <<>>,
                 waits |-> <<>>, returned |-> None, raised |-> None] :
                   n \in 1..MaxRetries}

\* one iteration of `for attempt in range(1, max_retries + 1)`
Attempt ==
    /\ pc = "complete"
    /\ llm.attempt <= llm.max_retries
    /\ \E o \in ProviderOutcomes :
          IF o.ok
          THEN /\ llm' = [llm EXCEPT !.calls = Append(@, o),
                                     !.returned = Some(ContentOrEmpty(o.content))]
               /\ pc' = "returned"
          ELSE /\ llm' = [llm EXCEPT
                            !.calls = Append(@, o),
                            !.waits = IF ShouldSleep(llm.attempt, llm.max_retries)
                                      THEN Append(@, Backoff(llm.attempt))
                                      ELSE @,
                            !.attempt = @ + 1]
               /\ pc' = pc
    /\ UNCHANGED <<matchVars, pipeVars, biasVars, loopVars, callVars,
                   llm_response, parse_result, dataVars, slots, render_log,
                   core_log>>

\* the loop is exhausted: raise ConfounderProviderError
GiveUp ==
    /\ pc = "complete"
    /\ llm.attempt > llm.max_retries
    /\ llm' = [llm EXCEPT !.raised = Some("ConfounderProviderError")]
    /\ pc' = "raised"
    /\ UNCHANGED <<matchVars, pipeVars, biasVars, loopVars, callVars,
                   llm_response, parse_result, dataVars, slots, render_log,
                   core_log>>

NextLLM == Attempt \/ GiveUp

\* the loop runs in one thread and every provider call returns or raises,
\* so an enabled step is eventually taken
SpecLLM == InitLLM /\ [][NextLLM]_vars /\ WF_vars(NextLLM)

----------------------------------------------------------------------------
(* Claim about LLMAdapter.complete *)

\* the number of provider calls that failed
Failures == Cardinality({k \in 1..Len(llm.calls) : ~llm.calls[k].ok})

CompleteEnded == pc \in {"returned", "raised"}

\* what holds of the call at every moment
BoundedRetries ==
    /\ Len(llm.calls) <= llm.max_retries
    \* no call after a successful one
    /\ \A k \in 1..Len(llm.calls) : llm.calls[k].ok => k = Len(llm.calls)
    \* the content of the successful call is returned, at once
    /\ pc = "returned" <=>
          /\ llm.calls # <<>>
          /\ llm.calls[Len(llm.calls)].ok
    /\ pc = "returned" =>
          /\ llm.returned =
                Some(ContentOrEmpty(llm.calls[Len(llm.calls)].content))
          /\ llm.raised = None
    \* the wait after failed attempt k is 2^(k-1), and none after the last
    /\ Len(llm.waits) = IF Failures < llm.max_retries THEN Failures
                        ELSE llm.max_retries - 1
    /\ \A k \in 1..Len(llm.waits) : llm.waits[k] = 2 ^ (k - 1)
    \* the error iff every attempt failed
    /\ pc = "raised" =>
          /\ llm.raised = Some("ConfounderProviderError")
          /\ llm.returned = None
          /\ Failures = llm.max_retries
    /\ CompleteEnded /\ Failures = llm.max_retries => pc = "raised"

\* C26: complete makes at most llm_max_retries provider calls, returns the
\* content of the first successful one and calls no more, waits 2^(k-1)
\* seconds after failed attempt k < llm_max_retries and never after the
\* last, raises ConfounderProviderError iff all attempts failed, and always
\* ends in one of the two ways.
C26_BoundedRetries == [](llm # None => BoundedRetries) /\ <>CompleteEnded

\* all attempts but the last failed, with waits 1 and 2, and the third
\* call's content was returned
C26_Witness ==
    /\ pc = "returned"
    /\ llm.max_retries = 3
    /\ Len(llm.calls) = 3
    /\ llm.waits = <<1, 2>>
    /\ llm.returned = Some(s_x)

----------------------------------------------------------------------------
(* data/validator.py: ValidationResult, validate_study *)

\* a cell is None (NaN) or Some(value); a dataset is its list of rows, a row
\* giving the cell of the treatment, of the outcome and of one covariate
Row(t, y, z) == [t |-> t, y |-> y, z |-> z]

\* df[col]
Column(rows, col) == [k \in 1..Len(rows) |-> rows[k][col]]

\* df[col].isna().any()
HasMissing(column) == None \in Range(column)

\* df[col].nunique(): the distinct values, NaN not counted
NUnique(column) == Cardinality(Range(column) \ {None})

\* the number of NaN cells: isna().sum()
Missing(column) == Cardinality({k \in 1..Len(column) : column[k] = None})

\* a plausible slip: a sample below twice the minimum is an error
InsufficientSamples_Doubled(n, min_samples) == n < min_samples * 2

\* len(df) < min_samples
InsufficientSamples(n, min_samples) == n < min_samples

ValidationResult(is_valid, errors, warnings) ==
    [is_valid |-> is_valid, errors |-> errors, warnings |-> warnings]

\* the messages are named by their first words
validate_study(rows, covariates, min_samples) ==
    LET n == Len(rows)
        t == Column(rows, "t")
        y == Column(rows, "y")
        e1 == IF InsufficientSamples(n, min_samples)
              THEN <<"Insufficient samples">> ELSE <<>>
        w1 == IF ~InsufficientSamples(n, min_samples) /\ n < min_samples * 2
              THEN <<"Small sample size">> ELSE <<>>
        e2 == (IF HasMissing(t) THEN <<"Treatment column contains missing values">>
               ELSE <<>>)
              \o (IF HasMissing(y) THEN <<"Outcome column contains missing values">>
                  ELSE <<>>)
        e3 == IF ~HasMissing(t) /\ NUnique(t) < 2
              THEN <<"Treatment column has no variation">> ELSE <<>>
        w3 == IF ~HasMissing(t) /\ NUnique(t) = 2
                 /\ ~(Range(t) \subseteq {Some(0), Some(1)})
              THEN <<"Treatment is binary but not 0/1">> ELSE <<>>
        e4 == IF ~HasMissing(y) /\ NUnique(y) < 2
              THEN <<"Outcome column has no variation">> ELSE <<>>
        \* null_pct = df[cov].isna().mean(): NaN on an empty frame
        w5 == IF covariates = <<>> \/ n = 0 THEN <<>>
              ELSE IF Missing(Column(rows, "z")) * 2 > n
              THEN <<"Covariate is missing in a share of rows">>
              ELSE IF Missing(Column(rows, "z")) > 0
              THEN <<"Covariate has missing values">>
              ELSE <<>>
        errors == e1 \o e2 \o e3 \o e4
        warnings == w1 \o w3 \o w5
    IN  ValidationResult(errors = <<>>, errors, warnings)

----------------------------------------------------------------------------
(* Specification of validate_study alone: any dataset of up to MaxRows     *)
(* rows of the pool; min_samples (100 by default) is scaled down           *)

MaxRows == 4

RowPool ==
    {Row(Some(0), Some(0), Some(0)), Row(Some(1), Some(1), Some(0)),
     Row(Some(1), Some(0), None), Row(Some(2), Some(1), Some(0)),
     Row(None, Some(0), Some(0)), Row(Some(0), None, None),
     Row(Some(0), Some(1), None)}

Datasets == UNION {[1..n -> RowPool] : n \in 0..MaxRows}

MinSamples == {1, 2}

InitCheck ==
    /\ pc = "validate_study"
    /\ IdleMatch
    /\ IdlePipe
    /\ IdleBias
    /\ IdleLoop
    /\ IdleCalls
    /\ llm_response = None /\ parse_result = None /\ llm = None
    /\ load_args = None
    /\ slots = <<>> /\ render_log = <<>> /\ core_log = <<>>
    /\ val_study \in {Some([rows |-> d, covariates |-> c, min_samples |-> ms]) :
                        d \in Datasets, c \in {<<>>, <<"z">>},
                        ms \in MinSamples}
    /\ val_res = None

\* cli.py step 2: val_res = validate_study(study, min_samples=min_samples)
ValidateStudy ==
    /\ pc = "validate_study"
    /\ LET a == Get(val_study)
       IN  val_res' = Some(validate_study(a.rows, a.covariates, a.min_samples))
    /\ pc' = "study_validated"
    /\ UNCHANGED <<matchVars, pipeVars, biasVars, loopVars, callVars,
                   llmVars, load_args, val_study, slots, render_log, core_log>>

NextCheck == ValidateStudy

SpecCheck == InitCheck /\ [][NextCheck]_vars

----------------------------------------------------------------------------
(* Claim about validate_study *)

StudyValidated == pc = "study_validated"
ValRes == Get(val_res)
ValRows == Get(val_study).rows
ValT == Column(ValRows, "t")
ValY == Column(ValRows, "y")

\* C27: is_valid iff errors is empty; each error is recorded exactly when
\* its condition holds (too few rows, a missing treatment value, a missing
\* outcome value, a treatment or an outcome without missing values and with
\* fewer than 2 distinct values), and nothing else is an error: missing
\* covariate values and a sample in [min_samples, 2 * min_samples) add
\* warnings only.
C27_ValidIffNoErrors ==
    StudyValidated =>
       LET ms == Get(val_study).min_samples
           E == Range(ValRes.errors)
           W == Range(ValRes.warnings)
       IN  /\ ValRes.is_valid <=> ValRes.errors = <<>>
           /\ "Insufficient samples" \in E <=> Len(ValRows) < ms
           /\ "Treatment column contains missing values" \in E <=>
                 \E k \in 1..Len(ValRows) : ValRows[k].t = None
           /\ "Outcome column contains missing values" \in E <=>
                 \E k \in 1..Len(ValRows) : ValRows[k].y = None
           /\ "Treatment column has no variation" \in E <=>
                 /\ \A k \in 1..Len(ValRows) : ValRows[k].t # None
                 /\ Cardinality(Range(ValT)) < 2
           /\ "Outcome column has no variation" \in E <=>
                 /\ \A k \in 1..Len(ValRows) : ValRows[k].y # None
                 /\ Cardinality(Range(ValY)) < 2
           /\ E \subseteq {"Insufficient samples",
                           "Treatment column contains missing values",
                           "Outcome column contains missing values",
                           "Treatment column has no variation",
                           "Outcome column has no variation"}
           /\ Len(ValRows) >= ms /\ Len(ValRows) < 2 * ms =>
                 "Small sample size" \in W
           /\ (/\ Get(val_study).covariates # <<>>
               /\ \E k \in 1..Len(ValRows) : ValRows[k].z = None) =>
                 \E w \in W : w \in {"Covariate is missing in a share of rows",
                                     "Covariate has missing values"}

\* a valid study with a small-sample warning and a covariate warning
C27_Witness ==
    /\ StudyValidated
    /\ ValRes.is_valid
    /\ Len(ValRows) = 3
    /\ Get(val_study).min_samples = 2
    /\ "Small sample size" \in Range(ValRes.warnings)
    /\ "Covariate is missing in a share of rows" \in Range(ValRes.warnings)

----------------------------------------------------------------------------
(* Claims about the dispatch of the pipeline *)

\* the record of validated that bias_log entry n was called on
QuantifiedRecord(n) == validated[bias_log[n].index]

BoundCalls == SelectSeq(render_log, LAMBDA e : e.op = "bound_unmeasured_confounder")

NoBias(v) == v.bias_magnitude = None /\ v.bias_percentage = None

\* what holds of the calls made so far
GuardedDispatch ==
    \* estimate_bias is called on confirmed confounders only, and its
    \* precondition never fails
    /\ \A n \in 1..Len(bias_log) :
          /\ QuantifiedRecord(n).is_measured
          /\ QuantifiedRecord(n).is_statistically_significant
          /\ ~Falsy(QuantifiedRecord(n).matched_column)
          /\ bias_log[n].error #
                Some("ValueError: Cannot quantify precise bias for unmeasured confounders.")
    \* bound_unmeasured_confounder is called on unmeasured confounders only,
    \* and its precondition never fails
    /\ \A n \in 1..Len(BoundCalls) :
          /\ ~BoundCalls[n].confounder.is_measured
          /\ BoundCalls[n].error = None
    \* the other confounders keep their bias fields unset
    /\ \A i \in 1..Len(validated) :
          ~IsConfirmed(validated[i]) => NoBias(validated[i])
    /\ report # None =>
          \A k \in 1..Len(Get(report).ranked_confounders) :
             ~IsConfirmed(Get(report).ranked_confounders[k].confounder) =>
                NoBias(Get(report).ranked_confounders[k].confounder)
    \* every confirmed confounder was passed to estimate_bias before the report
    /\ report # None =>
          \A i \in 1..Len(validated) :
             IsConfirmed(validated[i]) =>
                \E n \in 1..Len(bias_log) : bias_log[n].index = i

\* C29: in the pipeline estimate_bias is invoked only on measured and
\* significant confounders, every invocation precedes generate_report,
\* bound_unmeasured_confounder is invoked only on unmeasured ones, neither
\* precondition ValueError occurs, and unmeasured and rejected confounders
\* keep bias_magnitude = bias_percentage = None.
C29_GuardedDispatch ==
    /\ []GuardedDispatch
    /\ [][/\ report # None => bias_log' = bias_log /\ validated' = validated
          /\ render_log' # render_log => report # None]_vars

\* a run that quantified a confirmed confounder, reported, and bounded an
\* unmeasured one while rendering
C29_Witness ==
    /\ pc = "rendered"
    /\ bias_log # <<>>
    /\ BoundCalls # <<>>
    /\ \E i \in 1..Len(validated) : ~validated[i].is_measured
    /\ \E i \in 1..Len(validated) :
          IsConfirmed(validated[i]) /\ ~NoBias(validated[i])

\* C30: after the pipeline has completed without raising, every ranked
\* confounder that is measured and significant has numeric bias_magnitude
\* and bias_percentage.
C30_BiasFieldsPresent ==
    pc = "done" /\ report # None =>
       \A k \in 1..Len(Get(report).ranked_confounders) :
          LET v == Get(report).ranked_confounders[k].confounder
          IN  IsConfirmed(v) =>
                 v.bias_magnitude # None /\ v.bias_percentage # None

\* the report was generated without an exception, and formatting the bias
\* of a confirmed confounder failed in the renderer
C30_Witness ==
    /\ pc = "render_failed"
    /\ error = None
    /\ \E n \in 1..Len(render_log) :
          /\ render_log[n].op = "format"
          /\ render_log[n].error = Some("TypeError")
          /\ IsConfirmed(render_log[n].confounder)
          /\ NoBias(render_log[n].confounder)

====
